---- MODULE Spec2Model ----
(***************************************************************************)
(* A model of riffkey (src/riffkey.go): the trie Router and the Input      *)
(* dispatch state machine with its lock, its deferred timer and the        *)
(* handlers it invokes.  Every goroutine (a caller of the Input, or the    *)
(* goroutine time.AfterFunc starts for an expired timer) is a thread with  *)
(* a call stack of frames; a step of a thread is one lock acquisition, one *)
(* critical section, one handler invocation or one return.                 *)
(***************************************************************************)
EXTENDS Integers, Sequences, FiniteSets, TLC

(***************************************************************************)
(* Bounds of the model.                                                    *)
(***************************************************************************)
\* calls of Input methods made in one behaviour of the sequential specification
MaxCallsSeq == 3
\* calls of Input methods made in one behaviour of the concurrent specification
MaxCallsConc == 3
\* calls of Dispatch made in one behaviour of the same-key specification
MaxCallsSame == 4
\* digits the count accumulator may hold
MaxCountLen == 2
\* depth of a thread's call stack (a handler calling back into the Input)
MaxDepth == 4
\* digits the count accumulator may hold in the count specification
MaxDigits == 20
\* keys in a buffer given to match in the match specification
MaxMatchLen == 3
\* calls of Dispatch made in one behaviour of the rapid-input specification
MaxCallsRapid == 6

(***************************************************************************)
(* Key model (riffkey.go 16-65).                                           *)
(***************************************************************************)
ModNone == 0
ModCtrl == 2
ModAlt == 4
ModShift == 8
SpecialNone == 0

Rune(c) == [Rune |-> c, Mod |-> ModNone, Special |-> SpecialNone]

\* the runes used as keys: 'g' 't' 'x' 'd' 'j' '0' '3' '9'
Kg == Rune(103)
Kt == Rune(116)
Kx == Rune(120)
Kd == Rune(100)
Kj == Rune(106)
K0 == Rune(48)
K3 == Rune(51)
K9 == Rune(57)
\* Ctrl+3: a digit rune with a modifier
KC3 == [Rune |-> 51, Mod |-> ModCtrl, Special |-> SpecialNone]
NoKey == [Rune |-> 0, Mod |-> ModNone, Special |-> SpecialNone]

(***************************************************************************)
(* Router: the trie.  A node is the key sequence leading to it; the root   *)
(* is the empty sequence.  handler maps a node to the name of its handler, *)
(* "nil" for none.                                                         *)
(***************************************************************************)
NoHandler == "nil"

NewRouter == [nodes |-> {<<>>}, handler |-> [n \in {<<>>} |-> NoHandler]]

Prefixes(keys) == {SubSeq(keys, 1, n) : n \in 0..Len(keys)}

\* the trie insertion of registerPattern for an already parsed key sequence
registerPattern(r, keys, h) ==
    IF Len(keys) = 0 THEN r
    ELSE LET nodes == r.nodes \cup Prefixes(keys)
         IN  [nodes   |-> nodes,
              handler |-> [n \in nodes |->
                              IF n = keys THEN h
                              ELSE IF n \in r.nodes THEN r.handler[n]
                              ELSE NoHandler]]

\* removePattern for an already parsed key sequence: the handler of the node is cleared,
\* the nodes stay
removePattern(r, keys) ==
    IF Len(keys) = 0 \/ keys \notin r.nodes THEN r
    ELSE [r EXCEPT !.handler[keys] = NoHandler]

HasChild(r, node, k) == Append(node, k) \in r.nodes
\* children tested against nil: the map is made with every node, so it never is nil
HasChildrenNonNil(r, node) == TRUE

HasChildren(r, node) == \E n \in r.nodes : Len(n) = Len(node) + 1 /\ SubSeq(n, 1, Len(node)) = node

RECURSIVE matchWalk(_, _, _, _, _, _)
matchWalk(r, keys, i, node, lastHandler, lastConsumed) ==
    IF i > Len(keys)
    THEN [handler |-> lastHandler, consumed |-> lastConsumed, partial |-> HasChildren(r, node)]
    ELSE IF ~HasChild(r, node, keys[i])
         THEN IF lastHandler # NoHandler
              THEN [handler |-> lastHandler, consumed |-> lastConsumed, partial |-> FALSE]
              ELSE [handler |-> NoHandler, consumed |-> 0, partial |-> FALSE]
         ELSE LET child == Append(node, keys[i])
              IN  IF r.handler[child] # NoHandler
                  THEN matchWalk(r, keys, i + 1, child, r.handler[child], i)
                  ELSE matchWalk(r, keys, i + 1, child, lastHandler, lastConsumed)

\* a match that never reports a longer prefix
matchNoPartial(r, keys) == [matchWalk(r, keys, 1, <<>>, NoHandler, 0) EXCEPT !.partial = FALSE]

match(r, keys) == matchWalk(r, keys, 1, <<>>, NoHandler, 0)

\* the routers of the model: a normal-mode router and an insert-mode router
Normal ==
    registerPattern(registerPattern(registerPattern(registerPattern(registerPattern(
        registerPattern(NewRouter,
        <<Kg>>, "g"), <<Kg, Kg>>, "gg"), <<Kg, Kt>>, "gt"), <<Kx>>, "x"), <<Kd, Kd>>, "dd"),
        <<K3, Kx>>, "3x")
Insert ==
    registerPattern(registerPattern(NewRouter, <<Kx>>, "ins_x"), <<Kj, Kj>>, "ins_jj")
\* a router without ambiguous patterns, with "0" registered, as in TestCountPrefix
Counted ==
    registerPattern(registerPattern(registerPattern(NewRouter,
        <<Kx>>, "x"), <<K0>>, "0"), <<Kd, Kd>>, "dd")
\* a router on which "gg" was registered and removed, and one on which it never was
NeverGG == registerPattern(registerPattern(NewRouter, <<Kg>>, "g"), <<Kx>>, "x")
RemovedGG == removePattern(registerPattern(NeverGG, <<Kg, Kg>>, "gg"), <<Kg, Kg>>)
Routers == [normal |-> Normal, insert |-> Insert, counted |-> Counted,
            removed |-> RemovedGG, never |-> NeverGG]
RouterIds == {"normal", "insert", "counted", "removed", "never"}

(***************************************************************************)
(* Named bindings (riffkey.go 192-434).  A pattern is held as the key      *)
(* sequence ParsePattern gives for it; the empty pattern is the empty      *)
(* sequence.                                                               *)
(***************************************************************************)
SpecialEscape == 1
SpecialEnter == 2
SpecialTab == 3
SpecialSpace == 4
SpecialBackspace == 5
SpecialUp == 6
SpecialDown == 7
SpecialLeft == 8
SpecialRight == 9
SpecialHome == 10
SpecialEnd == 11
SpecialPageUp == 12
SpecialPageDown == 13
SpecialInsert == 14
SpecialDelete == 15
SpecialF1 == 16
SpecialF12 == 27

KeyOf(rune, mod, special) == [Rune |-> rune, Mod |-> mod, Special |-> special]
Sp(special) == KeyOf(0, ModNone, special)
\* m&bit # 0 for a modifier bit
HasMod(m, bit) == (m \div bit) % 2 = 1

\* the names given to HandleNamed
Names == {"scroll_down", "scroll_up"}

generatesEscapeSequence(k) ==
    \/ k.Special \in SpecialUp..SpecialDelete
    \/ k.Special \in SpecialF1..SpecialF12
    \/ HasMod(k.Mod, ModAlt)

NoBinding ==
    [present |-> FALSE, defaultPattern |-> <<>>, currentPattern |-> <<>>, handler |-> NoHandler]

\* NewRouter(): the Router with its flag and its map of named bindings
NewNamedRouter ==
    [trie |-> NewRouter, hasEscapeSequences |-> FALSE,
     namedBindings |-> [n \in Names |-> NoBinding], bindingOrder |-> <<>>]

\* registerPattern's update of hasEscapeSequences
flag(R, keys) ==
    R.hasEscapeSequences \/ \E i \in 1..Len(keys) : generatesEscapeSequence(keys[i])

\* Handle(pattern, h): registerPattern with the flag
Handle(R, keys, h) ==
    IF Len(keys) = 0 THEN R
    ELSE [R EXCEPT !.hasEscapeSequences = flag(R, keys),
                   !.trie = registerPattern(@, keys, h)]

HandleNamed(R, name, keys, h) ==
    Handle([R EXCEPT !.namedBindings[name] =
                         [present |-> TRUE, defaultPattern |-> keys,
                          currentPattern |-> keys, handler |-> h],
                     !.bindingOrder = Append(@, name)],
           keys, h)

\* a Rebind that leaves the old pattern registered
RebindKeepOld(R, name, keys) ==
    IF ~R.namedBindings[name].present THEN R
    ELSE Handle([R EXCEPT !.namedBindings[name].currentPattern = keys],
                keys, R.namedBindings[name].handler)

\* Rebind(name, pattern): the router after the call; the call returns Bound(R, name)
Rebind(R, name, keys) ==
    IF ~R.namedBindings[name].present THEN R
    ELSE Handle([R EXCEPT !.trie = removePattern(@, R.namedBindings[name].currentPattern),
                          !.namedBindings[name].currentPattern = keys],
                keys, R.namedBindings[name].handler)
Bound(R, name) == R.namedBindings[name].present

Reset(R, name) ==
    IF ~R.namedBindings[name].present THEN R
    ELSE IF R.namedBindings[name].currentPattern = R.namedBindings[name].defaultPattern THEN R
    ELSE Rebind(R, name, R.namedBindings[name].defaultPattern)

\* ResetAll(): Reset of every name of the map, in the order the iteration takes them
RECURSIVE ResetEach(_, _)
ResetEach(R, order) ==
    IF order = <<>> THEN R ELSE ResetEach(Reset(R, order[1]), Tail(order))
\* the orders in which a range over the map can visit the names
MapOrders(R) ==
    LET S == {n \in Names : R.namedBindings[n].present}
    IN  {o \in [1..Cardinality(S) -> S] : \A i, j \in 1..Cardinality(S) : i # j => o[i] # o[j]}

Bindings(R) ==
    [i \in 1..Len(R.bindingOrder) |->
        [Name           |-> R.bindingOrder[i],
         Pattern        |-> R.namedBindings[R.bindingOrder[i]].currentPattern,
         DefaultPattern |-> R.namedBindings[R.bindingOrder[i]].defaultPattern]]

\* a Reader that is not in use
NoReader == <<>>

(***************************************************************************)
(* Input (riffkey.go 667-889).                                             *)
(***************************************************************************)
\* callers of the Input: goroutines of the application
NumCallers == 2
Callers == 1..NumCallers

VARIABLES
    stack,        \* Input.stack: router ids, bottom first
    buffer,       \* Input.buffer
    countBuffer,  \* Input.countBuffer: the digit runes accumulated
    mu,           \* Input.mu: the thread and frame holding it, MuFree when unlocked
    timer,        \* Input.timer: the id of a timer, 0 for nil
    pending,      \* Input.pending: a handler name, NoHandler for nil
    pendingKeys,  \* Input.pendingKeys
    timers,       \* the timers created by time.AfterFunc: state and captured pendingCount
    threads,      \* call stack per goroutine: callers first, then one per timer
    ncalls,       \* Input method calls made so far
    hist,         \* history: the critical sections run and the handlers invoked, in order
    cancelled,    \* ids of the timers whose pending match was discarded without firing
    panicked,     \* a slice bound was out of range
    tracing,      \* whether hist records the critical sections too, or only the handlers
    intSize,      \* the size of int in the build: 32 or 64 bits
    router,       \* a Router with named bindings: trie, namedBindings, bindingOrder, flag
    reader,       \* a Reader with its byte source
    text          \* a Key, the string Key.String renders it as, the keys ParsePattern reads

vars == <<stack, buffer, countBuffer, mu, timer, pending, pendingKeys, timers,
          threads, ncalls, hist, cancelled, panicked, tracing, intSize, router, reader, text>>

\* no key is being rendered
NoText == <<>>

\* the router an Input holds: one of the fixed routers, or the router with named bindings
RouterAt(id) == IF id = "named" THEN router.trie ELSE Routers[id]

\* int is 32 bits wide on 386 and arm, 64 bits on amd64 and arm64
IntSizes == {32, 64}

MuFree == [owner |-> 0, depth |-> 0]

TimerThread(n) == NumCallers + n
TimerOf(t) == t - NumCallers
ThreadIds == 1..Len(threads)

Frame(op, pc, key, r) ==
    [op |-> op, pc |-> pc, key |-> key, r |-> r, h |-> NoHandler, keys |-> <<>>,
     count |-> 0, via |-> "", gen |-> 0, ret |-> FALSE]

Top(t) == threads[t][Len(threads[t])]
Depth(t) == Len(threads[t])
SetTop(t, f) == [threads EXCEPT ![t] = [@ EXCEPT ![Len(@)] = f]]
PopFrame(t) == [threads EXCEPT ![t] = SubSeq(@, 1, Len(@) - 1)]
Running(t, op, pc) == Depth(t) > 0 /\ Top(t).op = op /\ Top(t).pc = pc

Ev(ev, t, key, h, keys, count, via, gen, ret) ==
    [ev |-> ev, t |-> t, key |-> key, h |-> h, keys |-> keys, count |-> count,
     via |-> via, gen |-> gen, ret |-> ret]
\* the Input has nothing buffered, counted or pending
IdleInput == buffer = <<>> /\ countBuffer = <<>> /\ pending = NoHandler
\* a critical section, with whether the Input was idle when it began
OpEv(op, t, key, ret) ==
    Ev(op, t, key, NoHandler, <<>>, 0, IF IdleInput THEN "idle" ELSE "busy", 0, ret)
Log(e) == IF tracing \/ e.ev = "fire" THEN Append(hist, e) ELSE hist

\* NewInput(root) with a non-nil root
InitInput ==
    /\ stack = <<"normal">>
    /\ buffer = <<>>
    /\ countBuffer = <<>>
    /\ mu = MuFree
    /\ timer = 0
    /\ pending = NoHandler
    /\ pendingKeys = <<>>
    /\ timers = <<>>
    /\ threads = [t \in Callers |-> <<>>]
    /\ ncalls = 0
    /\ hist = <<>>
    /\ cancelled = {}
    /\ panicked = FALSE
    /\ intSize \in IntSizes
    /\ text = NoText
    /\ router = NewNamedRouter
    /\ reader = NoReader

\* a count digit test that takes 0 as a first digit too
isCountDigitWithZero(k, cb) ==
    k.Mod = ModNone /\ k.Special = SpecialNone /\ k.Rune >= 48 /\ k.Rune <= 57

\* isCountDigit
isCountDigit(k, cb) ==
    IF k.Mod # ModNone \/ k.Special # SpecialNone THEN FALSE
    ELSE IF Len(cb) = 0 THEN k.Rune >= 49 /\ k.Rune <= 57
    ELSE k.Rune >= 48 /\ k.Rune <= 57

\* a digit accumulated whatever the key buffer holds
accumulatesAnywhere(k, cb, buf) == isCountDigit(k, cb)

\* Dispatch line 750: i.isCountDigit(key) && len(i.buffer) == 0
accumulates(k, cb, buf) == isCountDigit(k, cb) /\ Len(buf) = 0

\* strconv.Atoi on a string of digit runes
RECURSIVE Atoi(_)
Atoi(cb) == IF Len(cb) = 0 THEN 0 ELSE 10 * Atoi(SubSeq(cb, 1, Len(cb) - 1)) + (cb[Len(cb)] - 48)

\* the digit runes of math.MaxInt
MaxIntDigits(bits) ==
    IF bits = 32 THEN <<50, 49, 52, 55, 52, 56, 51, 54, 52, 55>>
    ELSE <<57, 50, 50, 51, 51, 55, 50, 48, 51, 54, 56, 53, 52, 55, 55, 53, 56, 48, 55>>

\* a digit string compared with another of the same length, as numbers
RECURSIVE DigitsGreater(_, _)
DigitsGreater(a, b) ==
    IF Len(a) = 0 THEN FALSE
    ELSE IF a[1] # b[1] THEN a[1] > b[1]
    ELSE DigitsGreater(Tail(a), Tail(b))

\* strconv.Atoi's err for a string of digits without leading zero: the value is out of
\* the range of int
AtoiErr(cb, bits) ==
    \/ Len(cb) > Len(MaxIntDigits(bits))
    \/ Len(cb) = Len(MaxIntDigits(bits)) /\ DigitsGreater(cb, MaxIntDigits(bits))

\* a count that does not default to 1
parseCountNoDefault(cb) == Atoi(cb)

\* parseCount
parseCount(cb) ==
    IF Len(cb) = 0 THEN 1
    ELSE IF AtoiErr(cb, intSize) THEN 1
    ELSE IF Atoi(cb) < 1 THEN 1 ELSE Atoi(cb)

\* a timer that is never stopped
TimerStopNot(ts, n) == ts

\* timer.Stop(): an armed timer is stopped; one whose function has started is not
TimerStop(ts, n) ==
    IF n # 0 /\ ts[n].st = "armed" THEN [ts EXCEPT ![n].st = "stopped"] ELSE ts

\* the pending match dropped without firing: its timer id joins cancelled
Dropped == IF pending # NoHandler THEN cancelled \cup {timer} ELSE cancelled

\* a Dispatch that never abandons a pending sequence
brokenNever(wasPending, m, buf) == FALSE

\* Dispatch line 773: the pending sequence is broken by the new key
broken(wasPending, m, buf) == wasPending /\ m.consumed < Len(buf) /\ ~m.partial

\* a buffer that keeps the consumed keys
advanceNone(buf, consumed) == buf

\* buffer[consumed:]
advance(buf, consumed) == SubSeq(buf, consumed + 1, Len(buf))

\* the lock kept while the handler runs
keepLock(m) == m

\* i.mu.Unlock() before a handler is invoked
unlockForHandler(m) == MuFree

\* a callback that does not look at the pending handler
callbackActsAlways(n) == TRUE

\* a callback with the test of line 802 inverted
callbackActsInverted(n) == pending = NoHandler

\* timer callback line 802: the callback acts when a pending handler is set
callbackActs(n) == pending # NoHandler

IsDigitKey(k) == k.Mod = ModNone /\ k.Special = SpecialNone /\ k.Rune >= 48 /\ k.Rune <= 57

\* digit keys on their way into the count accumulator
DigitsInFlight ==
    Cardinality({t \in ThreadIds : \E d \in 1..Len(threads[t]) :
        /\ threads[t][d].op = "Dispatch"
        /\ threads[t][d].pc \in {"lock", "body"}
        /\ IsDigitKey(threads[t][d].key)})

(***************************************************************************)
(* A call of an Input method: by a caller goroutine that is not in a call, *)
(* or by a running handler (re-entrant).                                   *)
(***************************************************************************)
CanCall(t, max) ==
    /\ ~panicked
    /\ ncalls < max
    /\ t \in Callers
    /\ Depth(t) = 0

CanCallNested(t, max) ==
    /\ ~panicked
    /\ ncalls < max
    /\ Running(t, "handler", "run")
    /\ Depth(t) + 2 <= MaxDepth

DoCall(t, op, key, r) ==
    /\ IsDigitKey(key) => Len(countBuffer) + DigitsInFlight < MaxCountLen
    /\ threads' = [threads EXCEPT ![t] = Append(@, Frame(op, "lock", key, r))]
    /\ ncalls' = ncalls + 1
    /\ UNCHANGED <<stack, buffer, countBuffer, mu, timer, pending, pendingKeys, timers,
                   hist, cancelled, panicked, tracing, intSize, router, reader, text>>

\* i.mu.Lock(): on entry, and again after a handler returned
Lock(t) ==
    /\ ~panicked
    /\ Depth(t) > 0
    /\ Top(t).pc \in {"lock", "relock"}
    /\ mu = MuFree
    /\ mu' = [owner |-> t, depth |-> Depth(t)]
    /\ threads' = SetTop(t, [Top(t) EXCEPT !.pc = IF @ = "lock" THEN "body" ELSE "ret"])
    /\ UNCHANGED <<stack, buffer, countBuffer, timer, pending, pendingKeys, timers,
                   ncalls, hist, cancelled, panicked, tracing, intSize, router, reader, text>>

\* a critical section ends with the lock held and the method about to return
Finish(t, ret) ==
    /\ threads' = SetTop(t, [Top(t) EXCEPT !.pc = "ret", !.ret = ret])
    /\ hist' = Log(OpEv(Top(t).op, t, Top(t).key, ret))
    /\ UNCHANGED <<mu, ncalls, panicked, tracing, intSize, router, reader, text>>

\* a critical section ends by unlocking to invoke handler h
Fire(t, h, keys, count, via, gen) ==
    /\ threads' = SetTop(t, [Top(t) EXCEPT !.pc = "call", !.ret = TRUE, !.h = h,
                                           !.keys = keys, !.count = count,
                                           !.via = via, !.gen = gen])
    /\ hist' = Log(OpEv(Top(t).op, t, Top(t).key, TRUE))
    /\ mu' = unlockForHandler(mu)
    /\ UNCHANGED <<ncalls, panicked, tracing, intSize, router, reader, text>>

\* a Dispatch that matches against the root router
currentRoot(st) == st[1]

\* Dispatch line 747: the router on top of the stack
current(st) == st[Len(st)]

\* Dispatch, from the lock taken to the first unlock or to the return
DispatchBody(t) ==
    /\ ~panicked
    /\ Running(t, "Dispatch", "body")
    /\ LET key == Top(t).key
           buf == Append(buffer, key)
           m   == match(RouterAt(current(stack)), buf)
           n   == Len(timers) + 1
       IN  IF Len(stack) = 0
           THEN /\ Finish(t, FALSE)
                /\ UNCHANGED <<stack, buffer, countBuffer, timer, pending, pendingKeys,
                               timers, cancelled>>
           ELSE IF accumulates(key, countBuffer, buffer)
           THEN /\ countBuffer' = Append(countBuffer, key.Rune)
                /\ Finish(t, TRUE)
                /\ UNCHANGED <<stack, buffer, timer, pending, pendingKeys, timers, cancelled>>
           ELSE IF broken(pending # NoHandler, m, buf)
           THEN /\ timers' = TimerStop(timers, timer)
                /\ timer' = 0
                /\ pending' = NoHandler
                /\ pendingKeys' = <<>>
                /\ buffer' = <<>>
                /\ countBuffer' = <<>>
                /\ cancelled' = Dropped
                /\ Finish(t, FALSE)
                /\ UNCHANGED stack
           ELSE IF m.handler # NoHandler /\ ~m.partial
           THEN /\ timers' = TimerStop(timers, timer)
                /\ timer' = 0
                /\ pending' = NoHandler
                /\ pendingKeys' = <<>>
                /\ buffer' = advance(buf, m.consumed)
                /\ countBuffer' = <<>>
                /\ cancelled' = Dropped
                /\ Fire(t, m.handler, SubSeq(buf, 1, m.consumed), parseCount(countBuffer),
                        "immediate", 0)
                /\ UNCHANGED stack
           ELSE IF m.handler # NoHandler /\ m.partial
           THEN /\ timers' = Append(TimerStop(timers, timer),
                                    [st |-> "armed", count |-> parseCount(countBuffer)])
                /\ timer' = n
                /\ pending' = m.handler
                /\ pendingKeys' = SubSeq(buf, 1, m.consumed)
                /\ buffer' = buf
                /\ cancelled' = Dropped
                /\ threads' = Append(SetTop(t, [Top(t) EXCEPT !.pc = "ret", !.ret = TRUE]), <<>>)
                /\ hist' = Log(OpEv("Dispatch", t, key, TRUE))
                /\ UNCHANGED <<stack, countBuffer, mu, ncalls, panicked, tracing, intSize, router, reader, text>>
           ELSE IF m.partial
           THEN /\ timers' = TimerStop(timers, timer)
                /\ timer' = 0
                /\ pending' = NoHandler
                /\ pendingKeys' = <<>>
                /\ buffer' = buf
                /\ cancelled' = Dropped
                /\ Finish(t, TRUE)
                /\ UNCHANGED <<stack, countBuffer>>
           ELSE /\ timers' = TimerStop(timers, timer)
                /\ timer' = 0
                /\ pending' = NoHandler
                /\ pendingKeys' = <<>>
                /\ buffer' = <<>>
                /\ countBuffer' = <<>>
                /\ cancelled' = Dropped
                /\ Finish(t, FALSE)
                /\ UNCHANGED stack

\* the function given to time.AfterFunc, from the lock taken to its unlock
TimerBody(t) ==
    /\ ~panicked
    /\ Running(t, "timer", "body")
    /\ IF callbackActs(TimerOf(t))
       THEN IF Len(pendingKeys) > Len(buffer)
            THEN /\ panicked' = TRUE
                 /\ UNCHANGED <<stack, buffer, countBuffer, mu, timer, pending, pendingKeys,
                                timers, threads, ncalls, hist, cancelled, tracing, intSize, router, reader, text>>
            ELSE /\ pending' = NoHandler
                 /\ pendingKeys' = <<>>
                 /\ buffer' = advance(buffer, Len(pendingKeys))
                 /\ countBuffer' = <<>>
                 /\ Fire(t, pending, pendingKeys, timers[TimerOf(t)].count, "timer", timer)
                 /\ UNCHANGED <<stack, timer, timers, cancelled>>
       ELSE /\ mu' = MuFree
            /\ threads' = PopFrame(t)
            /\ UNCHANGED <<stack, buffer, countBuffer, timer, pending, pendingKeys, timers,
                           ncalls, hist, cancelled, panicked, tracing, intSize, router, reader, text>>

\* the timer's duration elapses: the runtime starts the function in its own goroutine
TimerExpire(n) ==
    /\ ~panicked
    /\ n \in 1..Len(timers)
    /\ timers[n].st = "armed"
    /\ timers' = [timers EXCEPT ![n].st = "expired"]
    /\ threads' = [threads EXCEPT ![TimerThread(n)] = <<Frame("timer", "lock", NoKey, "")>>]
    /\ UNCHANGED <<stack, buffer, countBuffer, mu, timer, pending, pendingKeys, ncalls,
                   hist, cancelled, panicked, tracing, intSize, router, reader, text>>

\* a clearBuffer that leaves the pending match set
clearBufferKeepPending ==
    /\ timers' = TimerStop(timers, timer)
    /\ timer' = 0
    /\ UNCHANGED <<pending, pendingKeys>>
    /\ buffer' = <<>>
    /\ countBuffer' = <<>>
    /\ cancelled' = Dropped

\* clearBuffer
clearBuffer ==
    /\ timers' = TimerStop(timers, timer)
    /\ timer' = 0
    /\ pending' = NoHandler
    /\ pendingKeys' = <<>>
    /\ buffer' = <<>>
    /\ countBuffer' = <<>>
    /\ cancelled' = Dropped

\* Flush, from the lock taken to the unlock before the handler or to the return
FlushBody(t) ==
    /\ ~panicked
    /\ Running(t, "Flush", "body")
    /\ IF pending # NoHandler
       THEN /\ pending' = NoHandler
            /\ pendingKeys' = <<>>
            /\ buffer' = <<>>
            /\ countBuffer' = <<>>
            /\ timers' = TimerStop(timers, timer)
            /\ timer' = 0
            /\ Fire(t, pending, pendingKeys, parseCount(countBuffer), "flush", timer)
            /\ UNCHANGED <<stack, cancelled>>
       ELSE /\ Finish(t, FALSE)
            /\ UNCHANGED <<stack, buffer, countBuffer, timer, pending, pendingKeys, timers,
                           cancelled>>

ClearBody(t) ==
    /\ ~panicked
    /\ Running(t, "Clear", "body")
    /\ clearBuffer
    /\ Finish(t, TRUE)
    /\ UNCHANGED stack

PushBody(t) ==
    /\ ~panicked
    /\ Running(t, "Push", "body")
    /\ clearBuffer
    /\ stack' = Append(stack, Top(t).r)
    /\ Finish(t, TRUE)

\* a Pop that removes the last router too
canPopLast(st) == Len(st) > 0

\* Pop line 698
canPop(st) == Len(st) > 1

PopBody(t) ==
    /\ ~panicked
    /\ Running(t, "Pop", "body")
    /\ IF canPop(stack)
       THEN /\ clearBuffer
            /\ stack' = SubSeq(stack, 1, Len(stack) - 1)
            /\ Finish(t, TRUE)
       ELSE /\ Finish(t, FALSE)
            /\ UNCHANGED <<stack, buffer, countBuffer, timer, pending, pendingKeys, timers,
                           cancelled>>

\* Pending: a copy of the count accumulator and the buffer
PendingBody(t) ==
    /\ ~panicked
    /\ Running(t, "Pending", "body")
    /\ threads' = SetTop(t, [Top(t) EXCEPT !.pc = "ret", !.keys = buffer,
                                           !.count = parseCount(countBuffer)])
    /\ hist' = Log(OpEv("Pending", t, NoKey, TRUE))
    /\ UNCHANGED <<stack, buffer, countBuffer, mu, timer, pending, pendingKeys, timers,
                   ncalls, cancelled, panicked, tracing, intSize, router, reader, text>>

\* handler(Match{Keys, Count}): the handler starts
Invoke(t) ==
    /\ ~panicked
    /\ Depth(t) > 0
    /\ Top(t).pc = "call"
    /\ threads' = [threads EXCEPT ![t] =
                     Append([@ EXCEPT ![Len(@)].pc = "called"],
                            [Top(t) EXCEPT !.op = "handler", !.pc = "run"])]
    /\ hist' = Log(Ev("fire", t, NoKey, Top(t).h, Top(t).keys, Top(t).count,
                               Top(t).via, Top(t).gen, TRUE))
    /\ UNCHANGED <<stack, buffer, countBuffer, mu, timer, pending, pendingKeys, timers,
                   ncalls, cancelled, panicked, tracing, intSize, router, reader, text>>

\* the handler returns: Dispatch and Flush go on to lock again, the timer function ends
HandlerReturn(t) ==
    /\ ~panicked
    /\ Running(t, "handler", "run")
    /\ threads' = [threads EXCEPT ![t] =
                     IF @[Len(@) - 1].op = "timer"
                     THEN SubSeq(@, 1, Len(@) - 2)
                     ELSE [SubSeq(@, 1, Len(@) - 1) EXCEPT ![Len(@) - 1].pc = "relock"]]
    /\ UNCHANGED <<stack, buffer, countBuffer, mu, timer, pending, pendingKeys, timers,
                   ncalls, hist, cancelled, panicked, tracing, intSize, router, reader, text>>

\* a Dispatch whose result is always taken as true
handledAlways(f) == TRUE

\* handled := i.Dispatch(key): the result Dispatch hands to the loop of Run
handled(f) == f.ret

\* return: the deferred i.mu.Unlock() runs; a Dispatch called by Run returns into its loop
Return(t) ==
    /\ ~panicked
    /\ Depth(t) > 0
    /\ Top(t).pc = "ret"
    /\ mu' = MuFree
    /\ threads' = IF Depth(t) > 1 /\ threads[t][Depth(t) - 1].op = "Run"
                  THEN [threads EXCEPT ![t] =
                          <<[threads[t][1] EXCEPT !.pc = "after", !.ret = handled(Top(t))]>>]
                  ELSE PopFrame(t)
    /\ UNCHANGED <<stack, buffer, countBuffer, timer, pending, pendingKeys, timers,
                   ncalls, hist, cancelled, panicked, tracing, intSize, router, reader, text>>

(***************************************************************************)
(* Specifications.                                                         *)
(***************************************************************************)
SeqKeys == {Kg, Kt, Kx, Kd, Kj, K3}
ConcKeys == {Kg, Kx, Kj}

\* one goroutine using the Input, with the timer goroutines beside it
CallSeq ==
    /\ CanCall(1, MaxCallsSeq)
    /\ \/ \E k \in SeqKeys : DoCall(1, "Dispatch", k, "")
       \/ DoCall(1, "Flush", NoKey, "")
       \/ DoCall(1, "Clear", NoKey, "")
       \/ DoCall(1, "Push", NoKey, "insert")
       \/ DoCall(1, "Pop", NoKey, "")

\* several goroutines using the Input, and handlers that call back into it
CallConc ==
    \E t \in ThreadIds :
        /\ CanCall(t, MaxCallsConc) \/ CanCallNested(t, MaxCallsConc)
        /\ \/ \E k \in ConcKeys : DoCall(t, "Dispatch", k, "")
           \/ DoCall(t, "Flush", NoKey, "")
           \/ DoCall(t, "Clear", NoKey, "")
           \/ DoCall(t, "Push", NoKey, "insert")
           \/ DoCall(t, "Pop", NoKey, "")
           \/ DoCall(t, "Pending", NoKey, "")

LockStep == \E t \in ThreadIds : Lock(t)
DispatchStep == \E t \in ThreadIds : DispatchBody(t)
FlushStep == \E t \in ThreadIds : FlushBody(t)
ClearStep == \E t \in ThreadIds : ClearBody(t)
PushStep == \E t \in ThreadIds : PushBody(t)
PopStep == \E t \in ThreadIds : PopBody(t)
PendingStep == \E t \in ThreadIds : PendingBody(t)
TimerStep == \E t \in ThreadIds : TimerBody(t)
InvokeStep == \E t \in ThreadIds : Invoke(t)
HandlerReturnStep == \E t \in ThreadIds : HandlerReturn(t)
ReturnStep == \E t \in ThreadIds : Return(t)
ExpireStep == \E n \in 1..Len(timers) : TimerExpire(n)

\* the steps the goroutines take once they are in a call
Progress ==
    \/ LockStep
    \/ DispatchStep
    \/ FlushStep
    \/ ClearStep
    \/ PushStep
    \/ PopStep
    \/ TimerStep
    \/ InvokeStep
    \/ HandlerReturnStep
    \/ ReturnStep
    \/ ExpireStep

InitSeq == InitInput /\ tracing = TRUE
NextSeq == CallSeq \/ Progress
SpecSeq == InitSeq /\ [][NextSeq]_vars

Init == InitInput /\ tracing = FALSE
Next == CallConc \/ PendingStep \/ Progress
Spec == Init /\ [][Next]_vars

\* goroutines that all dispatch the same single-key pattern, as TestConcurrentDispatch
CallSame == \E t \in Callers : CanCall(t, MaxCallsSame) /\ DoCall(t, "Dispatch", Kx, "")
NextSame ==
    \/ CallSame
    \/ LockStep
    \/ DispatchStep
    \/ InvokeStep
    \/ HandlerReturnStep
    \/ ReturnStep
SpecSame == Init /\ [][NextSame]_vars

\* one goroutine dispatching a count prefix and then the keys of a pattern, as TestCountPrefix
CountKeys == {K3, K0, K9, Kx, Kd}

\* the value of the count is within 32 bits, or Atoi fails on it
CountEvaluable == ~AtoiErr(countBuffer, 32) \/ AtoiErr(countBuffer, intSize)

CallCount ==
    /\ ~panicked
    /\ Depth(1) = 0
    /\ \A i \in 1..Len(hist) : hist[i].ev # "fire"
    /\ ncalls = Len(countBuffer) + Len(buffer)
    /\ \E k \in CountKeys :
          /\ IF isCountDigit(k, countBuffer) /\ buffer = <<>>
             THEN Len(countBuffer) < MaxDigits /\ (Len(countBuffer) >= MaxCountLen => k = K9)
             ELSE CountEvaluable
          /\ threads' = [threads EXCEPT ![1] = Append(@, Frame("Dispatch", "lock", k, ""))]
    /\ ncalls' = ncalls + 1
    /\ UNCHANGED <<stack, buffer, countBuffer, mu, timer, pending, pendingKeys, timers,
                   hist, cancelled, panicked, tracing, intSize, router, reader, text>>

InitCount ==
    /\ stack = <<"counted">>
    /\ buffer = <<>>
    /\ countBuffer = <<>>
    /\ mu = MuFree
    /\ timer = 0
    /\ pending = NoHandler
    /\ pendingKeys = <<>>
    /\ timers = <<>>
    /\ threads = [t \in Callers |-> <<>>]
    /\ ncalls = 0
    /\ hist = <<>>
    /\ cancelled = {}
    /\ panicked = FALSE
    /\ intSize \in IntSizes
    /\ text = NoText
    /\ router = NewNamedRouter
    /\ reader = NoReader
    /\ tracing = TRUE
NextCount ==
    \/ CallCount
    \/ LockStep
    \/ DispatchStep
    \/ InvokeStep
    \/ HandlerReturnStep
    \/ ReturnStep
SpecCount == InitCount /\ [][NextCount]_vars

\* one goroutine dispatching keys back-to-back, as TestRapidSequenceInput, with the timer
\* goroutines beside it
RapidKeys == {Kg, Kt}
CallRapid == CanCall(1, MaxCallsRapid) /\ \E k \in RapidKeys : DoCall(1, "Dispatch", k, "")
\* a timer expires while no callback of an earlier timer is still in flight
ExpireRapid == (\A n \in 1..Len(timers) : Depth(TimerThread(n)) = 0) /\ ExpireStep
NextRapid ==
    \/ CallRapid
    \/ LockStep
    \/ DispatchStep
    \/ TimerStep
    \/ InvokeStep
    \/ HandlerReturnStep
    \/ ReturnStep
    \/ ExpireRapid
SpecRapid == InitSeq /\ [][NextRapid]_vars

\* Router.match applied to a buffer of keys on one of the routers
MatchKeys == {Kg, Kt, Kx, Kd}
KeySeqs(n) == UNION {[1..l -> MatchKeys] : l \in 0..n}

InitMatch ==
    /\ stack \in {<<r>> : r \in RouterIds}
    /\ buffer \in KeySeqs(MaxMatchLen)
    /\ countBuffer = <<>>
    /\ mu = MuFree
    /\ timer = 0
    /\ pending = NoHandler
    /\ pendingKeys = <<>>
    /\ timers = <<>>
    /\ threads = [t \in Callers |-> <<>>]
    /\ ncalls = 0
    /\ hist = <<>>
    /\ cancelled = {}
    /\ panicked = FALSE
    /\ intSize \in IntSizes
    /\ text = NoText
    /\ router = NewNamedRouter
    /\ reader = NoReader
    /\ tracing = TRUE
\* handler, consumed, partial := router.match(i.buffer)
MatchStep ==
    /\ hist = <<>>
    /\ LET m == match(RouterAt(current(stack)), buffer)
       IN  hist' = <<Ev("match", 0, NoKey, m.handler, buffer, m.consumed, "", 0, m.partial)>>
    /\ UNCHANGED <<stack, buffer, countBuffer, mu, timer, pending, pendingKeys, timers,
                   threads, ncalls, cancelled, panicked, tracing, intSize, router, reader, text>>
NextMatch == MatchStep
SpecMatch == InitMatch /\ [][NextMatch]_vars

(***************************************************************************)
(* Reading the history.                                                    *)
(***************************************************************************)
IsFire(e) == e.ev = "fire"
IsTimerAct(e) == e.ev = "timer"
IsCall(e) == e.ev \notin {"fire", "timer"}
IsStep(e) == e.ev # "fire"

\* the handlers invoked, in order
Fires == SelectSeq(hist, IsFire)
\* the critical sections of the callers' method calls, in order
CallerOps == SelectSeq(hist, IsCall)
\* the critical sections of calls and of acting timer callbacks, in order
Trace == SelectSeq(hist, IsStep)

Invocation(e) == [h |-> e.h, keys |-> e.keys, count |-> e.count, via |-> e.via]
Invocations == [i \in 1..Len(Fires) |-> Invocation(Fires[i])]
Inv(h, keys, count, via) == [h |-> h, keys |-> keys, count |-> count, via |-> via]

\* the calls made so far are exactly Dispatch of these keys, each critical section run
Dispatched(keys) ==
    /\ ncalls = Len(keys)
    /\ Len(CallerOps) = Len(keys)
    /\ \A i \in 1..Len(keys) : CallerOps[i].ev = "Dispatch" /\ CallerOps[i].key = keys[i]

\* no timer callback acted before the first n critical sections had run
NoTimerActWithin(n) == \A i \in 1..n : i <= Len(Trace) => ~IsTimerAct(Trace[i])

\* the caller is in no call
CallerIdle == Depth(1) = 0

(***************************************************************************)
(* C1: with "g" and "gg" registered on the active router, Dispatch(g)     *)
(* followed by Dispatch(g) before the first g's timer callback has run     *)
(* invokes gg's handler exactly once (by the time the second Dispatch has  *)
(* returned) and g's handler never, as long as no further call is made.    *)
(***************************************************************************)
C1_GGFiresNotG ==
    (Dispatched(<<Kg, Kg>>) /\ NoTimerActWithin(2)) =>
        /\ \A i \in 1..Len(Invocations) : Invocations[i] = Inv("gg", <<Kg, Kg>>, 1, "immediate")
        /\ Len(Invocations) <= 1
        /\ CallerIdle => Len(Invocations) = 1
        /\ Len(Trace) = 2

\* g, g dispatched, gg fired, and the first g's timer had expired: its callback ran late
C1_Witness ==
    /\ Dispatched(<<Kg, Kg>>)
    /\ NoTimerActWithin(2)
    /\ CallerIdle
    /\ Invocations = <<Inv("gg", <<Kg, Kg>>, 1, "immediate")>>
    /\ timers[1].st = "expired"
    /\ Depth(TimerThread(1)) = 0

(***************************************************************************)
(* C3: with "g" and "gg" registered, Dispatch(g) and then, with g still    *)
(* pending, Dispatch of a key that extends neither a handler nor a longer  *)
(* prefix: no handler is invoked, then or later, the second Dispatch       *)
(* returns false, and the buffer and the count accumulator are empty.      *)
(* An optional count digit before g changes nothing.                       *)
(***************************************************************************)
Unrelated == {Kx, Kd, Kj, K3}

SpecSeqFair == SpecSeq /\ WF_vars(Progress)

C2_Fired(pre) == Invocations = <<Inv("g", <<Kg>>, parseCount([i \in 1..Len(pre) |-> pre[i].Rune]), "timer")>>

C2_AtMostOnce ==
    \A pre \in {<<>>, <<K3>>} :
        Dispatched(pre \o <<Kg>>) => (Invocations = <<>> \/ C2_Fired(pre))

C2_GFiresAfterTimeout ==
    /\ []C2_AtMostOnce
    /\ \A pre \in {<<>>, <<K3>>} :
          Dispatched(pre \o <<Kg>>) ~> (~Dispatched(pre \o <<Kg>>) \/ C2_Fired(pre))

\* 3, g dispatched, nothing else called, and g's handler has run with count 3
C2_Witness ==
    /\ Dispatched(<<K3, Kg>>)
    /\ C2_Fired(<<K3>>)
    /\ \A t \in ThreadIds : Depth(t) = 0

(***************************************************************************)
(* C4: with "g", "gg" and "x" registered, Dispatch(g) and then, with g     *)
(* still pending, Dispatch(x): x is handled as a fresh key and x's handler *)
(* is invoked for it.                                                      *)
(***************************************************************************)
C4_XProcessedAfterG ==
    (Dispatched(<<Kg, Kx>>) /\ NoTimerActWithin(2) /\ CallerIdle) =>
        Invocations = <<Inv("x", <<Kx>>, 1, "immediate")>>

(***************************************************************************)
(* C5: the keys of a registered pattern P that no longer pattern extends,  *)
(* dispatched to an idle Input, fire P's handler exactly once, before the  *)
(* last Dispatch returns, with Count 1 and Keys = P.                       *)
(***************************************************************************)
\* the index in hist of the j-th critical section of a call
CallPos(j) ==
    CHOOSE i \in 1..Len(hist) :
        /\ IsCall(hist[i])
        /\ Cardinality({q \in 1..i : IsCall(hist[q])}) = j

\* the last n calls were Dispatch calls, the first made on an idle Input; P is their keys
LastKeys(n) == [i \in 1..n |-> CallerOps[Len(CallerOps) - n + i].key]
LastAreDispatches(n) ==
    /\ ncalls = Len(CallerOps)
    /\ Len(CallerOps) >= n
    /\ CallerIdle
    /\ \A i \in 1..n : CallerOps[Len(CallerOps) - n + i].ev = "Dispatch"
    /\ CallerOps[Len(CallerOps) - n + 1].via = "idle"

Active == RouterAt(stack[Len(stack)])
\* the registered patterns of a router, and those no longer registered pattern extends
Patterns(r) == {P \in r.nodes : r.handler[P] # NoHandler}
Complete(r, P) ==
    /\ P \in Patterns(r)
    /\ ~\E Q \in Patterns(r) : Len(Q) > Len(P) /\ SubSeq(Q, 1, Len(P)) = P

\* what happened from the first of the last n calls on
Since(n) == SubSeq(hist, CallPos(Len(CallerOps) - n + 1), Len(hist))
NoTimerActDuring(n) ==
    \A i \in 1..n : ~IsTimerAct(SelectSeq(Since(n), IsStep)[i])
IsCallerFire(e) == e.ev = "fire" /\ e.via = "immediate"
CallerFires(n) ==
    LET f == SelectSeq(Since(n), IsCallerFire) IN [i \in 1..Len(f) |-> Invocation(f[i])]

\* the claim as stated: for every such pattern
C5_EveryPatternFires ==
    \A n \in 1..MaxCallsSeq :
        (LastAreDispatches(n) /\ Complete(Active, LastKeys(n))) =>
            CallerFires(n) = <<Inv(Active.handler[LastKeys(n)], LastKeys(n), 1, "immediate")>>

\* amended: P does not begin with a count digit, and no timer callback fires a handler
\* between the first and the last of the Dispatch calls
C5_PatternFires ==
    \A n \in 1..MaxCallsSeq :
        (/\ LastAreDispatches(n)
         /\ Complete(Active, LastKeys(n))
         /\ ~isCountDigit(LastKeys(n)[1], <<>>)
         /\ NoTimerActDuring(n)) =>
            CallerFires(n) = <<Inv(Active.handler[LastKeys(n)], LastKeys(n), 1, "immediate")>>

\* g, t dispatched after an earlier call, with g pending in between: gt fired
C5_Witness ==
    /\ LastAreDispatches(2)
    /\ Len(CallerOps) = 3
    /\ LastKeys(2) = <<Kg, Kt>>
    /\ NoTimerActDuring(2)
    /\ CallerFires(2) = <<Inv("gt", <<Kg, Kt>>, 1, "immediate")>>

(***************************************************************************)
(* C6: N concurrent Dispatch calls with the key of a registered single-key *)
(* pattern that no longer pattern extends ("x") invoke its handler exactly *)
(* N times: every call that has not yet invoked it is still on its way to, *)
(* and every invocation is of x with Keys [x] and Count 1.                 *)
(***************************************************************************)
\* Dispatch calls that have not yet invoked a handler
OnTheWay ==
    Cardinality({t \in ThreadIds : Depth(t) > 0 /\ Top(t).op = "Dispatch"
                                    /\ Top(t).pc \in {"lock", "body", "call"}})

C6_NoLostNoDuplicateFire ==
    /\ Len(Invocations) + OnTheWay = ncalls
    /\ \A i \in 1..Len(Invocations) : Invocations[i] = Inv("x", <<Kx>>, 1, "immediate")
    /\ (\A t \in ThreadIds : Depth(t) = 0) => Len(Invocations) = ncalls

\* all the calls were made, each has invoked the handler, and every caller is in a handler
C6_Witness ==
    /\ ncalls = MaxCallsSame
    /\ Len(Invocations) = ncalls
    /\ \A t \in Callers : Running(t, "handler", "run")

(***************************************************************************)
(* C7: a timer callback whose pending match is no longer the current one   *)
(* (superseded by a later key, or cancelled and replaced by a newly armed  *)
(* pending match) invokes no handler and changes no state.                 *)
(***************************************************************************)
C7_StaleCallbackInert ==
    [][\A t \in ThreadIds :
          (Running(t, "timer", "body") /\ timer # TimerOf(t) /\ threads'[t] # threads[t]) =>
              /\ threads'[t] = <<>>
              /\ UNCHANGED <<buffer, countBuffer, pending, pendingKeys, hist>>]_vars

(***************************************************************************)
(* C8: every armed pending match is invoked at most once: what a timer     *)
(* callback or Flush invokes is an armed pending match that has neither    *)
(* been invoked before nor been cancelled by a later key, Clear, Push or   *)
(* Pop.  A pending match is identified by the timer armed with it.         *)
(***************************************************************************)
\* the deferred invocations made or about to be made: those of the history and those of
\* the frames that have unlocked to call the handler
Deferred ==
    {<<"fired", i>> : i \in {j \in 1..Len(Fires) : Fires[j].via # "immediate"}}
        \cup {<<"calling", t>> : t \in {u \in ThreadIds :
                 Depth(u) > 0 /\ Top(u).pc = "call" /\ Top(u).via # "immediate"}}
DeferredOf(x) == IF x[1] = "fired" THEN Fires[x[2]] ELSE Top(x[2])

C8_NoDoubleFire ==
    \A x \in Deferred :
        /\ DeferredOf(x).h # NoHandler
        /\ DeferredOf(x).gen \in 1..Len(timers)
        /\ DeferredOf(x).gen \notin cancelled
        /\ \A y \in Deferred : DeferredOf(y).gen = DeferredOf(x).gen => y = x

\* a pending match was fired by Flush while its timer had expired, and the timer's callback
\* has run since and returned
C8_Witness ==
    \E i \in 1..Len(Fires) :
        /\ Fires[i].via = "flush"
        /\ timers[Fires[i].gen].st = "expired"
        /\ Depth(TimerThread(Fires[i].gen)) = 0

(***************************************************************************)
(* C9: at most one timer is armed per Input; a timer is stopped only       *)
(* together with clearing the pending handler and keys it was armed for;   *)
(* and a timer callback that fires clears the pending handler and keys     *)
(* that its own timer was armed for.                                       *)
(***************************************************************************)
Armed == {n \in 1..Len(timers) : timers[n].st = "armed"}
PendingOf(n) == pending # NoHandler /\ timer = n
CallbackStep(n) ==
    /\ Running(TimerThread(n), "timer", "body")
    /\ threads'[TimerThread(n)] # threads[TimerThread(n)]

C9_AtMostOneArmed == Cardinality(Armed) <= 1 /\ \A n \in Armed : timer = n

C9_OneTimerPaired ==
    /\ []C9_AtMostOneArmed
    /\ [][\A n \in 1..Len(timers) :
            /\ (timers[n].st = "armed" /\ timers'[n].st = "stopped") => ~PendingOf(n)'
            /\ (CallbackStep(n) /\ pending # NoHandler) =>
                   PendingOf(n) /\ pending' = NoHandler /\ pendingKeys' = <<>>]_vars

(***************************************************************************)
(* C10: the lock is never held by a frame that has called a handler: on    *)
(* each firing path the handler runs with the lock released, so that the   *)
(* calls a handler makes on the same Input can take the lock.              *)
(***************************************************************************)
C10_LockFreeInHandler ==
    /\ mu.owner # 0 => mu.depth = Depth(mu.owner)
    /\ \A t \in ThreadIds : \A d \in 1..Depth(t) :
          threads[t][d].op = "handler" => ~(mu.owner = t /\ mu.depth < d)

\* a handler fired by a timer callback has called a method, which holds the lock
C10_Witness ==
    \E t \in ThreadIds :
        /\ Depth(t) = 3
        /\ threads[t][1].op = "timer"
        /\ threads[t][2].op = "handler"
        /\ threads[t][3].pc = "body"
        /\ mu = [owner |-> t, depth |-> 3]

(***************************************************************************)
(* C11: a count prefix (a digit 1-9, then digits 0-9) dispatched to an     *)
(* idle Input and followed by the keys of a pattern fires the pattern's    *)
(* handler with the prefix's decimal value as Count, and with Count 1 when *)
(* there is no prefix: the decimal numeral of Count is the digit string.   *)
(***************************************************************************)
\* the keys dispatched so far
DispatchedKeys == [i \in 1..Len(CallerOps) |-> CallerOps[i].key]

\* the count prefix of a key sequence: its leading digits, the first of them not 0
CountPrefixLen(ks) ==
    CHOOSE n \in 0..Len(ks) :
        /\ \A j \in 1..n : IsDigitKey(ks[j])
        /\ n > 0 => ks[1].Rune # 48
        /\ n < Len(ks) => ~IsDigitKey(ks[n + 1]) \/ (n = 0 /\ ks[1].Rune = 48)
CountPrefix(ks) == [j \in 1..CountPrefixLen(ks) |-> ks[j].Rune]
AfterPrefix(ks) == SubSeq(ks, CountPrefixLen(ks) + 1, Len(ks))

\* the decimal numeral of a positive integer, as digit runes
RECURSIVE Digits(_)
Digits(n) == IF n < 10 THEN <<48 + n>> ELSE Append(Digits(n \div 10), 48 + (n % 10))

\* Count is the value of the digit string ds, 1 for the empty string
CountIs(c, ds) == IF ds = <<>> THEN c = 1 ELSE c > 0 /\ Digits(c) = ds

\* the keys after the prefix are those of a pattern: its handler fires once, immediately,
\* when the last key's Dispatch has returned at the latest
PatternFired ==
    \A P \in Patterns(Counted) :
        (AfterPrefix(DispatchedKeys) = P /\ ncalls = Len(DispatchedKeys) /\ CallerIdle) =>
            /\ Len(Fires) = 1
            /\ Fires[1].h = Counted.handler[P]
            /\ Fires[1].keys = P
            /\ Fires[1].via = "immediate"

C12_ZeroIsLiteral ==
    /\ countBuffer # <<>> => countBuffer[1] # 48
    /\ (DispatchedKeys = <<K0>> /\ ncalls = 1) =>
          /\ countBuffer = <<>>
          /\ \A i \in 1..Len(Invocations) : Invocations[i] = Inv("0", <<K0>>, 1, "immediate")
          /\ Len(Invocations) <= 1
          /\ CallerIdle => Len(Invocations) = 1

\* just 0 was dispatched, its handler has fired and Dispatch has returned
C12_Witness ==
    /\ DispatchedKeys = <<K0>>
    /\ CallerIdle
    /\ Invocations = <<Inv("0", <<K0>>, 1, "immediate")>>

(***************************************************************************)
(* C13: once Clear has run, and until another call is made, the key buffer *)
(* and the count accumulator are empty, nothing is pending and no timer is *)
(* armed; no timer callback acts after the Clear, also not that of a timer *)
(* that had expired before it; and no pending match that was dropped is    *)
(* ever invoked.                                                           *)
(***************************************************************************)
\* the last call made is op, and its critical section has run
LastCallIs(op) ==
    /\ Len(CallerOps) > 0
    /\ ncalls = Len(CallerOps)
    /\ CallerOps[Len(CallerOps)].ev = op
AfterLastCall == SubSeq(hist, CallPos(Len(CallerOps)) + 1, Len(hist))
\* nothing buffered, counted or pending, and no timer kept or armed
Cleared ==
    /\ IdleInput
    /\ pendingKeys = <<>>
    /\ timer = 0
    /\ Armed = {}

C13_ClearCancels ==
    /\ LastCallIs("Clear") =>
          /\ Cleared
          /\ \A i \in 1..Len(AfterLastCall) : ~IsTimerAct(AfterLastCall[i])
    /\ \A i \in 1..Len(Fires) : Fires[i].gen \notin cancelled

\* g was dispatched, its timer expired, Clear ran before the timer's callback, and the
\* callback has run and returned: g's handler was not invoked
C13_Witness ==
    /\ CallerIdle
    /\ [i \in 1..Len(CallerOps) |-> CallerOps[i].ev] = <<"Dispatch", "Clear">>
    /\ CallerOps[1].key = Kg
    /\ timers[1].st = "expired"
    /\ Depth(TimerThread(1)) = 0
    /\ cancelled = {1}
    /\ Fires = <<>>

(***************************************************************************)
(* C14: a Flush that finds a pending match invokes its handler exactly     *)
(* once, before Flush returns, with the pending keys and the count         *)
(* accumulated before them (3, g, Flush gives g with Count 3); the timer   *)
(* it bypassed is stopped, and its callback, if it had expired, does not   *)
(* fire the match again.                                                   *)
(***************************************************************************)
IsFlushFire(e) == e.ev = "fire" /\ e.via = "flush"
FlushFires == SelectSeq(AfterLastCall, IsFlushFire)
LastCall == CallerOps[Len(CallerOps)]

C14_FlushFiresPending ==
    /\ (LastCallIs("Flush") /\ LastCall.ret) =>
          /\ Cleared
          /\ Len(FlushFires) <= 1
          /\ CallerIdle => Len(FlushFires) = 1
          /\ \A i \in 1..Len(FlushFires) :
                /\ FlushFires[i].keys \in Patterns(Active)
                /\ FlushFires[i].h = Active.handler[FlushFires[i].keys]
                /\ FlushFires[i].gen \in 1..Len(timers)
                /\ FlushFires[i].count = timers[FlushFires[i].gen].count
          /\ \A i \in 1..Len(AfterLastCall) : ~IsTimerAct(AfterLastCall[i])
    /\ (LastCallIs("Flush") /\ ~LastCall.ret) => FlushFires = <<>>
    /\ (ncalls = 3 /\ Len(CallerOps) = 3 /\ LastCallIs("Flush") /\ NoTimerActWithin(3)
          /\ CallerOps[1].ev = "Dispatch" /\ CallerOps[1].key = K3
          /\ CallerOps[2].ev = "Dispatch" /\ CallerOps[2].key = Kg) =>
          /\ \A i \in 1..Len(Invocations) : Invocations[i] = Inv("g", <<Kg>>, 3, "flush")
          /\ CallerIdle => Len(Invocations) = 1

\* 3, g, Flush: g fired with Count 3 by Flush, whose timer had expired; the timer's
\* callback has run since and returned
C14_Witness ==
    /\ CallerIdle
    /\ LastCallIs("Flush")
    /\ Invocations = <<Inv("g", <<Kg>>, 3, "flush")>>
    /\ timers[1].st = "expired"
    /\ Depth(TimerThread(1)) = 0

(***************************************************************************)
(* C15: after a call of Push or Pop, and until another call is made, the   *)
(* key buffer and the count accumulator are empty, nothing is pending and  *)
(* no timer is armed; no timer callback takes a pending match after the    *)
(* call, and no match dropped by it is ever invoked.                       *)
(***************************************************************************)
\* as claimed: for every call of Push or Pop
C15_PushPopClear ==
    (LastCallIs("Push") \/ LastCallIs("Pop")) =>
        /\ Cleared
        /\ \A i \in 1..Len(AfterLastCall) : ~IsTimerAct(AfterLastCall[i])

\* for the calls that change the stack: Push, and Pop with more than one router stacked
C15_StackChangeClears ==
    /\ (LastCallIs("Push") \/ (LastCallIs("Pop") /\ LastCall.ret)) =>
          /\ Cleared
          /\ \A i \in 1..Len(AfterLastCall) : ~IsTimerAct(AfterLastCall[i])
    /\ \A i \in 1..Len(Fires) : Fires[i].via # "immediate" => Fires[i].gen \notin cancelled

\* g was dispatched on the normal router, its timer expired, Push ran before the timer's
\* callback, and the callback has run and returned: g's handler was not invoked
C15_Witness ==
    /\ CallerIdle
    /\ [i \in 1..Len(CallerOps) |-> CallerOps[i].ev] = <<"Dispatch", "Push">>
    /\ CallerOps[1].key = Kg
    /\ stack = <<"normal", "insert">>
    /\ timers[1].st = "expired"
    /\ Depth(TimerThread(1)) = 0
    /\ Fires = <<>>

(***************************************************************************)
(* C16: Pop with a single router stacked changes nothing: the stack, the   *)
(* key buffer, the count accumulator, the pending match and its timer are  *)
(* left as they were; the root router is never removed, and the depth of   *)
(* the stack is at least 1 in every state.                                 *)
(***************************************************************************)
PopRuns(t) == Running(t, "Pop", "body") /\ threads'[t] # threads[t]

C16_PopAtRootNoOp ==
    /\ [](Len(stack) >= 1 /\ stack[1] = "normal")
    /\ [][\A t \in ThreadIds : (PopRuns(t) /\ Len(stack) = 1) =>
             UNCHANGED <<stack, buffer, countBuffer, pending, pendingKeys, timer, timers,
                         cancelled>>]_vars

\* a Pop on the one-router stack has run while g was pending with its timer armed
C16_Witness ==
    /\ \E t \in ThreadIds : Running(t, "Pop", "ret") /\ ~Top(t).ret
    /\ stack = <<"normal">>
    /\ pending = "g"
    /\ buffer = <<Kg>>
    /\ timer # 0 /\ timers[timer].st = "armed"

(***************************************************************************)
(* C17: only the router on top of the stack is active: a handler is        *)
(* selected, by Dispatch, by a timer callback or by Flush, only if it is   *)
(* registered on the router that is on top in that critical section; with  *)
(* another router pushed, a key bound on the root router alone fires       *)
(* nothing.                                                                *)
(***************************************************************************)
HandlersOf(r) == {r.handler[P] : P \in Patterns(r)}
\* thread t ends a critical section by unlocking to invoke a handler
Selects(t) ==
    /\ Depth(t) > 0
    /\ Top(t).pc = "body"
    /\ Len(threads'[t]) = Len(threads[t])
    /\ threads'[t][Len(threads[t])].pc = "call"

\* as claimed: no handler runs unless it is registered on the router then on top
C17_HandlerOfTopRuns ==
    \A t \in ThreadIds : \A d \in 1..Depth(t) :
        threads[t][d].op = "handler" => threads[t][d].h \in HandlersOf(Active)

C17_TopRouterActive ==
    /\ [][\A t \in ThreadIds :
            Selects(t) => stack' = stack /\ threads'[t][Len(threads[t])].h \in HandlersOf(Active)]_vars
    /\ [](\A k \in {Kg, Kd} :
            (Len(CallerOps) = 2 /\ ncalls = 2 /\ CallerOps[1].ev = "Push"
                /\ CallerOps[2].ev = "Dispatch" /\ CallerOps[2].key = k) =>
                    Fires = <<>> /\ ~CallerOps[2].ret)

\* Push(insert), Pop, x: the handler of x on the root router has fired
C17_Witness ==
    /\ CallerIdle
    /\ [i \in 1..Len(CallerOps) |-> CallerOps[i].ev] = <<"Push", "Pop", "Dispatch">>
    /\ stack = <<"normal">>
    /\ Invocations = <<Inv("x", <<Kx>>, 1, "immediate")>>

(***************************************************************************)
(* C18: match returns the handler of the longest registered pattern that   *)
(* is a prefix of the walked part of the buffer, with that pattern's       *)
(* length as consumed, nil and 0 when there is none; its third result is   *)
(* false when a key found no child, and when the whole buffer was walked   *)
(* it is true exactly when the node reached has children.                  *)
(***************************************************************************)
\* the longest prefix of the keys that is a node of the trie
Walked(r, keys) ==
    CHOOSE w \in Prefixes(keys) :
        w \in r.nodes /\ \A v \in Prefixes(keys) : v \in r.nodes => Len(v) <= Len(w)
\* the registered patterns that are prefixes of the walked part
Matching(r, keys) == Patterns(r) \cap Prefixes(Walked(r, keys))
Longest(S) == CHOOSE P \in S : \A Q \in S : Len(Q) <= Len(P)
NodeHasChildren(r, w) == \E n \in r.nodes : Len(n) = Len(w) + 1 /\ w \in Prefixes(n)

\* the results of match recorded in the history
Matched(e) == [handler |-> e.h, consumed |-> e.count, partial |-> e.ret]

C18_MatchLongest ==
    \A i \in 1..Len(hist) :
        LET r == Active
            keys == hist[i].keys
            res == Matched(hist[i])
        IN  /\ Matching(r, keys) = {} => res.handler = NoHandler /\ res.consumed = 0
            /\ Matching(r, keys) # {} =>
                  /\ res.handler = r.handler[Longest(Matching(r, keys))]
                  /\ res.consumed = Len(Longest(Matching(r, keys)))
            /\ res.partial = (Walked(r, keys) = keys /\ NodeHasChildren(r, keys))

\* match on g, g, x on the normal router: the walk stops at x, gg is the longest pattern
C18_Witness ==
    /\ stack = <<"normal">>
    /\ Len(hist) = 1
    /\ hist[1].keys = <<Kg, Kg, Kx>>
    /\ Matched(hist[1]) = [handler |-> "gg", consumed |-> 2, partial |-> FALSE]

(***************************************************************************)
(* C20: a router from which a pattern was removed behaves as one on which  *)
(* the pattern was never registered: Dispatch consults the router through  *)
(* match alone, and match gives the same handler, consumed count and       *)
(* longer-prefix flag on both, for every buffer.                           *)
(***************************************************************************)
C20_RemovedAsNeverRegistered ==
    \A i \in 1..Len(hist) :
        stack = <<"removed">> => Matched(hist[i]) = match(NeverGG, hist[i].keys)

(***************************************************************************)
(* C19: when the keys of consecutive patterns that no longer pattern       *)
(* extends are dispatched back-to-back to the idle Input, no timer         *)
(* callback firing in between (g,g,g,t,g,g with g, gg, gt registered),     *)
(* each pattern's handler fires once, in input order, each before the      *)
(* Dispatch of its last key returns, and the handler of the ambiguous      *)
(* prefix g never fires.                                                   *)
(***************************************************************************)
\* the patterns over the keys dispatched that no longer pattern extends
RapidPatterns ==
    {P \in Patterns(Normal) : Complete(Normal, P) /\ \A i \in 1..Len(P) : P[i] \in RapidKeys}
PatternSeqs == UNION {[1..n -> RapidPatterns] : n \in 1..(MaxCallsRapid \div 2)}
RECURSIVE Concat(_)
Concat(ps) == IF Len(ps) = 0 THEN <<>> ELSE ps[1] \o Concat(Tail(ps))
Expected(ps) == [i \in 1..Len(ps) |-> Inv(Normal.handler[ps[i]], ps[i], 1, "immediate")]

C19_BackToBack ==
    \A ps \in PatternSeqs :
        (Dispatched(Concat(ps)) /\ NoTimerActWithin(Len(Concat(ps)))) =>
            \/ Invocations = Expected(ps)
            \/ ~CallerIdle /\ Invocations = SubSeq(Expected(ps), 1, Len(ps) - 1)

\* g,g,g,t,g,g was dispatched: gg, gt, gg have fired, and the timer of the last g has
\* expired and its callback returned
C19_Witness ==
    /\ Dispatched(<<Kg, Kg, Kg, Kt, Kg, Kg>>)
    /\ CallerIdle
    /\ [i \in 1..Len(Invocations) |-> Invocations[i].h] = <<"gg", "gt", "gg">>
    /\ timers[3].st = "expired"
    /\ Depth(TimerThread(3)) = 0

(***************************************************************************)
(* Rebinding: a router with named bindings, rebound and reset, and then an *)
(* Input on it to which one goroutine dispatches keys (TestRebind,         *)
(* TestReset, TestResetAll).                                               *)
(***************************************************************************)
MaxBindOps == 2
MaxCallsBind == 2

Kk == Rune(107)
\* the patterns given to Rebind: "", "j", "k", "x", "g", "gg", "3x"
BindPatterns == {<<>>, <<Kj>>, <<Kk>>, <<Kx>>, <<Kg>>, <<Kg, Kg>>, <<K3, Kx>>}
BindKeys == {Kj, Kk, Kx, Kg, K3}

\* HandleNamed("scroll_down", "j", down), and with it or not HandleNamed("scroll_up", "k", up)
OneBound == HandleNamed(NewNamedRouter, "scroll_down", <<Kj>>, "down")
TwoBound == HandleNamed(OneBound, "scroll_up", <<Kk>>, "up")

\* a call on the router, as the history records it
BindEv(op, name, old, new, h, ret) ==
    [ev |-> op, t |-> 0, key |-> NoKey, h |-> h, keys |-> new, count |-> 0,
     via |-> name, gen |-> 0, ret |-> ret, old |-> old]

InitBind ==
    /\ stack = <<"named">>
    /\ buffer = <<>>
    /\ countBuffer = <<>>
    /\ mu = MuFree
    /\ timer = 0
    /\ pending = NoHandler
    /\ pendingKeys = <<>>
    /\ timers = <<>>
    /\ threads = [t \in Callers |-> <<>>]
    /\ ncalls = 0
    /\ hist = <<>>
    /\ cancelled = {}
    /\ panicked = FALSE
    /\ intSize \in IntSizes
    /\ text = NoText
    /\ router \in {OneBound, TwoBound}
    /\ reader = NoReader
    /\ tracing = TRUE

\* the router is set up before the Input is used
CanBind == ncalls = 0 /\ Len(hist) < MaxBindOps

RebindStep ==
    /\ CanBind
    /\ \E name \in Names, keys \in BindPatterns :
          /\ router' = Rebind(router, name, keys)
          /\ hist' = Append(hist, BindEv("Rebind", name, router.namedBindings[name].currentPattern,
                                         keys, router.namedBindings[name].handler,
                                         Bound(router, name)))
    /\ UNCHANGED <<stack, buffer, countBuffer, mu, timer, pending, pendingKeys, timers,
                   threads, ncalls, cancelled, panicked, tracing, intSize, reader, text>>

ResetStep ==
    /\ CanBind
    /\ \E name \in Names :
          /\ router' = Reset(router, name)
          /\ hist' = Append(hist, BindEv("Reset", name, router.namedBindings[name].currentPattern,
                                         router.namedBindings[name].defaultPattern,
                                         router.namedBindings[name].handler,
                                         Bound(router, name)))
    /\ UNCHANGED <<stack, buffer, countBuffer, mu, timer, pending, pendingKeys, timers,
                   threads, ncalls, cancelled, panicked, tracing, intSize, reader, text>>

ResetAllStep ==
    /\ CanBind
    /\ \E order \in MapOrders(router) :
          /\ router' = ResetEach(router, order)
          /\ hist' = Append(hist, BindEv("ResetAll", order[1], <<>>, <<>>, NoHandler, TRUE))
    /\ UNCHANGED <<stack, buffer, countBuffer, mu, timer, pending, pendingKeys, timers,
                   threads, ncalls, cancelled, panicked, tracing, intSize, reader, text>>

CallBind == CanCall(1, MaxCallsBind) /\ \E k \in BindKeys : DoCall(1, "Dispatch", k, "")

NextBind ==
    \/ RebindStep
    \/ ResetStep
    \/ ResetAllStep
    \/ CallBind
    \/ LockStep
    \/ DispatchStep
    \/ TimerStep
    \/ InvokeStep
    \/ HandlerReturnStep
    \/ ReturnStep
    \/ ExpireStep
SpecBind == InitBind /\ [][NextBind]_vars

IsBindOp(e) == e.ev \in {"Rebind", "Reset", "ResetAll"}
IsDispatch(e) == e.ev = "Dispatch"
BindOps == SelectSeq(hist, IsBindOp)
LastBindOp == BindOps[Len(BindOps)]
\* the keys dispatched, in order, each Dispatch having run its critical section
TypedKeys == LET d == SelectSeq(hist, IsDispatch) IN [i \in 1..Len(d) |-> d[i].key]
\* no call is running, no timer is armed and no timer callback is on its way
Quiet ==
    /\ Depth(1) = 0
    /\ \A n \in 1..Len(timers) : timers[n].st # "armed" /\ Depth(TimerThread(n)) = 0
\* the keys were dispatched back-to-back: no timer callback acted before the last of them
Unbroken == \A i, j \in 1..Len(hist) : i < j /\ IsTimerAct(hist[i]) => ~IsDispatch(hist[j])
IsPrefix(p, q) == Len(p) <= Len(q) /\ SubSeq(q, 1, Len(p)) = p
BindingOf(name) ==
    CHOOSE b \in {Bindings(router)[i] : i \in 1..Len(router.bindingOrder)} : b.Name = name
\* the pattern HandleNamed registered the name with
DefaultOf(name) == IF name = "scroll_down" THEN <<Kj>> ELSE <<Kk>>
\* the last call on the router was a Rebind that returned true, and all that followed is over
Rebound == Len(BindOps) > 0 /\ LastBindOp.ev = "Rebind" /\ LastBindOp.ret /\ Quiet
\* the trie holds h at the node of the pattern, if the pattern has a node
Registered(keys, h) == keys # <<>> /\ keys \in router.trie.nodes => router.trie.handler[keys] = h
\* the handler is invoked once for the keys, and nothing else is
FiresOnly(h, keys) == Len(Fires) = 1 /\ Fires[1].h = h /\ Fires[1].keys = keys

(***************************************************************************)
(* C21, as stated: after Rebind(name, newPattern) returned true, the old   *)
(* pattern dispatched does not fire the binding's handler, newPattern      *)
(* dispatched fires it, and Bindings() reports newPattern with the default *)
(* pattern unchanged.                                                      *)
(***************************************************************************)
C21_RebindMoves ==
    Rebound =>
        /\ BindingOf(LastBindOp.via).Pattern = LastBindOp.keys
        /\ BindingOf(LastBindOp.via).DefaultPattern = DefaultOf(LastBindOp.via)
        /\ Registered(LastBindOp.keys, LastBindOp.h)
        /\ LastBindOp.old # LastBindOp.keys => Registered(LastBindOp.old, NoHandler)
        /\ TypedKeys = LastBindOp.keys /\ Unbroken => FiresOnly(LastBindOp.h, LastBindOp.keys)
        /\ TypedKeys = LastBindOp.old => \A i \in 1..Len(Fires) : Fires[i].h # LastBindOp.h

\* a new pattern that differs from the old one, is not empty and does not begin with a
\* count digit
CountFirst(p) == p # <<>> /\ isCountDigit(p[1], <<>>)
Rebindable(old, new) == new # old /\ new # <<>> /\ ~CountFirst(new)

(***************************************************************************)
(* C21, amended: after Rebind(name, newPattern) returned true, Bindings()  *)
(* reports newPattern for the name with the default pattern unchanged,     *)
(* the trie holds the binding's handler at newPattern and, if the old      *)
(* pattern is another one, no handler at the old pattern;                  *)
(* and when newPattern differs from the old pattern, is not empty and does *)
(* not begin with a count digit, newPattern dispatched back-to-back fires  *)
(* the binding's handler, once, and the old pattern dispatched does not    *)
(* fire it unless the old pattern begins with a count digit or with        *)
(* newPattern.                                                             *)
(***************************************************************************)
C21_RebindMovesDistinct ==
    Rebound =>
        /\ BindingOf(LastBindOp.via).Pattern = LastBindOp.keys
        /\ BindingOf(LastBindOp.via).DefaultPattern = DefaultOf(LastBindOp.via)
        /\ Registered(LastBindOp.keys, LastBindOp.h)
        /\ LastBindOp.old # LastBindOp.keys => Registered(LastBindOp.old, NoHandler)
        /\ Rebindable(LastBindOp.old, LastBindOp.keys) =>
              /\ TypedKeys = LastBindOp.keys /\ Unbroken =>
                    FiresOnly(LastBindOp.h, LastBindOp.keys)
              /\ (/\ TypedKeys = LastBindOp.old
                  /\ ~IsPrefix(LastBindOp.keys, LastBindOp.old)
                  /\ ~CountFirst(LastBindOp.old)) =>
                    \A i \in 1..Len(Fires) : Fires[i].h # LastBindOp.h

\* "gg" was bound in place of "j" or "k", dispatched, and its handler ran
C21_Witness ==
    /\ Rebound
    /\ LastBindOp.keys = <<Kg, Kg>>
    /\ TypedKeys = <<Kg, Kg>>
    /\ FiresOnly(LastBindOp.h, <<Kg, Kg>>)

\* the names with a binding
BoundNames == {n \in Names : Bound(router, n)}
\* the default pattern of the name, dispatched back-to-back, fires the name's handler
DefaultFires(name) ==
    TypedKeys = DefaultOf(name) /\ Unbroken =>
        FiresOnly(router.namedBindings[name].handler, DefaultOf(name))

(***************************************************************************)
(* C22: after Reset(name) returned true the binding's default pattern,     *)
(* dispatched, fires the binding's handler; after ResetAll() every named   *)
(* binding has Pattern = DefaultPattern and each binding's default         *)
(* pattern, dispatched, fires that binding's own handler.                  *)
(***************************************************************************)
C22_ResetRestores ==
    Len(BindOps) > 0 /\ Quiet =>
        /\ LastBindOp.ev = "Reset" /\ LastBindOp.ret => DefaultFires(LastBindOp.via)
        /\ LastBindOp.ev = "ResetAll" =>
              \A n \in BoundNames :
                  /\ BindingOf(n).Pattern = BindingOf(n).DefaultPattern
                  /\ DefaultFires(n)

(***************************************************************************)
(* Reader (riffkey.go 890-1349): the decoding of bytes.  A byte is a       *)
(* number in 0..255, a byte string a sequence of them.                     *)
(***************************************************************************)
ESC == 27
Bytes == 0..255
\* the bytes '1' ';' 'A' 'O' 'Z' '[' '~' and the limits of the printable and letter ranges
Ch1 == 49
ChSemi == 59
ChA == 65
ChO == 79
ChZ == 90
ChBracket == 91
ChTilde == 126
ChLowerA == 97
ChLowerZ == 122
ChSpace == 32
ChDel == 127
Ch0 == 48
Ch9 == 57
ChPlus == 43
ChMinus == 45

\* a modifier that is always none
parseModifierNone(b) == ModNone

\* parseModifier: n := int(b - '1') in byte arithmetic, then the bits of n
parseModifier(b) ==
    LET n == (b - Ch1 + 256) % 256
    IN  (IF n % 2 = 1 THEN ModShift ELSE 0)
      + (IF (n \div 2) % 2 = 1 THEN ModAlt ELSE 0)
      + (IF (n \div 4) % 2 = 1 THEN ModCtrl ELSE 0)

parseSingleByte(b) ==
    IF b = ESC THEN Sp(SpecialEscape)
    ELSE IF b = 13 \/ b = 10 THEN Sp(SpecialEnter)
    ELSE IF b = 9 THEN Sp(SpecialTab)
    ELSE IF b = ChDel \/ b = 8 THEN Sp(SpecialBackspace)
    ELSE IF b = 0 THEN KeyOf(ChSpace, ModCtrl, SpecialNone)
    ELSE IF b < ESC THEN KeyOf((ChLowerA + b - 1) % 256, ModCtrl, SpecialNone)
    ELSE IF b = ChSpace THEN Sp(SpecialSpace)
    ELSE Rune(b)

\* strconv.Atoi on a byte string: an optional sign, then decimal digits; the value is
\* kept up to SatNum, any larger one being SatNum (no case of the callers is that large)
SatNum == 100
IsDigitByte(b) == b >= Ch0 /\ b <= Ch9
RECURSIVE atoiDigits(_, _)
atoiDigits(s, acc) ==
    IF s = <<>> THEN acc
    ELSE atoiDigits(Tail(s), IF acc * 10 + (s[1] - Ch0) >= SatNum THEN SatNum
                             ELSE acc * 10 + (s[1] - Ch0))
atoi(s) ==
    LET signed == s # <<>> /\ s[1] \in {ChPlus, ChMinus}
        ds     == IF signed THEN Tail(s) ELSE s
    IN  IF ds = <<>> \/ \E i \in 1..Len(ds) : ~IsDigitByte(ds[i])
        THEN [err |-> TRUE, num |-> 0]
        ELSE [err |-> FALSE,
              num |-> IF signed /\ s[1] = ChMinus THEN 0 - atoiDigits(ds, 0)
                      ELSE atoiDigits(ds, 0)]

\* strings.Index(numStr, ";"): the position of the first ';', 0 when there is none
IndexSemi(s) ==
    IF \E i \in 1..Len(s) : s[i] = ChSemi
    THEN CHOOSE i \in 1..Len(s) : s[i] = ChSemi /\ \A j \in 1..(i - 1) : s[j] # ChSemi
    ELSE 0

parseTildeSequence(b) ==
    IF Len(b) = 0 THEN Sp(SpecialEscape)
    ELSE LET idx    == IndexSemi(b)
             mod    == IF idx # 0 /\ idx < Len(b) THEN parseModifier(b[idx + 1]) ELSE ModNone
             numStr == IF idx # 0 THEN SubSeq(b, 1, idx - 1) ELSE b
             a      == atoi(numStr)
             num    == a.num
         IN  IF a.err THEN Sp(SpecialEscape)
             ELSE IF num = 1 THEN KeyOf(0, mod, SpecialHome)
             ELSE IF num = 2 THEN KeyOf(0, mod, SpecialInsert)
             ELSE IF num = 3 THEN KeyOf(0, mod, SpecialDelete)
             ELSE IF num = 4 THEN KeyOf(0, mod, SpecialEnd)
             ELSE IF num = 5 THEN KeyOf(0, mod, SpecialPageUp)
             ELSE IF num = 6 THEN KeyOf(0, mod, SpecialPageDown)
             ELSE IF num = 7 THEN KeyOf(0, mod, SpecialHome)
             ELSE IF num = 8 THEN KeyOf(0, mod, SpecialEnd)
             ELSE IF num \in 11..15 THEN KeyOf(0, mod, SpecialF1 + (num - 11))
             ELSE IF num \in 17..21 THEN KeyOf(0, mod, SpecialF1 + 5 + (num - 17))
             ELSE IF num \in 23..24 THEN KeyOf(0, mod, SpecialF1 + 10 + (num - 23))
             ELSE Sp(SpecialEscape)

\* the special key of a final letter of a CSI sequence, SpecialNone when it has none
csiLetter(c) ==
    IF c = 65 THEN SpecialUp
    ELSE IF c = 66 THEN SpecialDown
    ELSE IF c = 67 THEN SpecialRight
    ELSE IF c = 68 THEN SpecialLeft
    ELSE IF c = 72 THEN SpecialHome
    ELSE IF c = 70 THEN SpecialEnd
    ELSE SpecialNone

\* parseCSI: b is what follows ESC [
parseCSI(b) ==
    IF Len(b) = 0 THEN Sp(SpecialEscape)
    ELSE IF csiLetter(b[1]) # SpecialNone THEN Sp(csiLetter(b[1]))
    ELSE IF b[1] = ChZ THEN KeyOf(0, ModShift, SpecialTab)
    ELSE IF Len(b) >= 4 /\ b[1] = Ch1 /\ b[2] = ChSemi /\ csiLetter(b[4]) # SpecialNone
         THEN KeyOf(0, parseModifier(b[3]), csiLetter(b[4]))
    ELSE IF b[Len(b)] = ChTilde THEN parseTildeSequence(SubSeq(b, 1, Len(b) - 1))
    ELSE Sp(SpecialEscape)

\* parseSS3: b is what follows ESC O
parseSS3(b) ==
    IF Len(b) = 0 THEN Sp(SpecialEscape)
    ELSE IF b[1] \in 80..83 THEN Sp(SpecialF1 + (b[1] - 80))
    ELSE IF b[1] = 72 THEN Sp(SpecialHome)
    ELSE IF b[1] = 70 THEN Sp(SpecialEnd)
    ELSE IF b[1] = 65 THEN Sp(SpecialUp)
    ELSE IF b[1] = 66 THEN Sp(SpecialDown)
    ELSE IF b[1] = 67 THEN Sp(SpecialRight)
    ELSE IF b[1] = 68 THEN Sp(SpecialLeft)
    ELSE Sp(SpecialEscape)

\* every byte taken as printable
IsPrintableAny(b) == TRUE

IsPrintable(b) == b >= ChSpace /\ b < ChDel

parseEscapeSequence(b) ==
    IF Len(b) = 1 THEN Sp(SpecialEscape)
    ELSE IF Len(b) = 2 /\ IsPrintable(b[2]) THEN KeyOf(b[2], ModAlt, SpecialNone)
    ELSE IF Len(b) >= 3 /\ b[2] = ChBracket THEN parseCSI(SubSeq(b, 3, Len(b)))
    ELSE IF Len(b) >= 3 /\ b[2] = ChO THEN parseSS3(SubSeq(b, 3, Len(b)))
    ELSE Sp(SpecialEscape)

parseBytes(b) ==
    IF Len(b) = 0 THEN NoKey
    ELSE IF Len(b) = 1 THEN parseSingleByte(b[1])
    ELSE IF b[1] = ESC THEN parseEscapeSequence(b)
    ELSE Rune(b[1])

\* a CSI terminator: a letter or ~
IsTerminator(c) ==
    (c >= ChA /\ c <= ChZ) \/ (c >= ChLowerA /\ c <= ChLowerZ) \/ c = ChTilde
\* ReadKey looks for the terminator among the CsiScan bytes from '[' on
CsiScan == 12
\* the number of buffered bytes, '[' first, that ReadKey takes as the CSI sequence
csiEnd(buf) ==
    LET last == IF Len(buf) < CsiScan THEN Len(buf) ELSE CsiScan
        T    == {i \in 2..last : IsTerminator(buf[i])}
    IN  IF T = {} THEN last ELSE CHOOSE i \in T : \A j \in T : i <= j

(***************************************************************************)
(* Reader: ReadKey as a process.  The fields of the variable reader:       *)
(*   buf          r.buf[r.pos:r.end], the bytes read and not yet decoded   *)
(*   readPending  r.readPending                                            *)
(*   readCh       r.readCh, a channel of capacity 1, with the results of   *)
(*                the goroutines that wait to send behind it               *)
(*   reading      the number of goroutines of asynchronous reads that are  *)
(*                in r.r.Read, writing r.tmp                               *)
(*   space        the length of the slice that goroutine reads into        *)
(*   parse        r.parseEscapeSequences                                   *)
(*   pc, stage    where ReadKey is: "idle" between calls, "read" in the    *)
(*                Read of ensureBytes, "recv" in its receive from readCh,  *)
(*                "wait" in a select of ensureBytesWithTimeout; stage 1    *)
(*                after ESC, 2 after ESC O, 3 after ESC [                  *)
(*   avail        the bytes the source has and a Read returns at once      *)
(*   future       the byte strings that will arrive at the source, in order*)
(*   end          what the source reports after its last byte: "none" (a   *)
(*                Read blocks), "EOF" or another error                     *)
(*   stream       all the bytes the source will ever have                  *)
(*   out          what the calls of ReadKey returned, in order: the key,   *)
(*                the error, the bytes the key was decoded from, whether   *)
(*                an asynchronous read was pending at the return           *)
(***************************************************************************)
BufLen == 64
TmpLen == 32
NoErr == "nil"

Min(a, b) == IF a < b THEN a ELSE b

NewReader(avail, future, end) ==
    [stream |-> avail \o Concat(future), buf |-> <<>>, readPending |-> FALSE, readCh |-> <<>>, reading |-> 0, space |-> 0,
     parse |-> TRUE, pc |-> "idle", stage |-> 0,
     avail |-> avail, future |-> future, end |-> end, out |-> <<>>]

\* ReadKey returns
Ret(rd, key, err, used) ==
    [rd EXCEPT !.pc = "idle", !.stage = 0,
               !.buf = SubSeq(@, used + 1, Len(@)),
               !.out = Append(@, [key |-> key, err |-> err, bytes |-> SubSeq(rd.buf, 1, used),
                                  pending |-> rd.readPending])]
\* ReadKey returns, ESC having been taken from the buffer before
RetEsc(rd, key, used) ==
    [rd EXCEPT !.pc = "idle", !.stage = 0,
               !.buf = SubSeq(@, used + 1, Len(@)),
               !.out = Append(@, [key |-> key, err |-> NoErr,
                                  bytes |-> <<ESC>> \o SubSeq(rd.buf, 1, used),
                                  pending |-> rd.readPending])]

\* a Read of the source can return: it has bytes, or it has ended
SourceReady(rd) == rd.avail # <<>> \/ (rd.future = <<>> /\ rd.end # "none")
\* the results r.r.Read(tmp[:space]) can have: the source after it, the bytes, the error
SourceRead(rd, space) ==
    LET n == Min(space, Len(rd.avail))
        after == [rd EXCEPT !.avail = SubSeq(@, n + 1, Len(@))]
        last == n = Len(rd.avail) /\ rd.future = <<>> /\ rd.end # "none"
    IN  IF n = 0 THEN {[rd |-> after, bytes |-> <<>>, err |-> rd.end]}
        ELSE {[rd |-> after, bytes |-> SubSeq(rd.avail, 1, n), err |-> e] :
                 e \in IF last THEN {NoErr, rd.end} ELSE {NoErr}}

\* space := len(r.buf) - r.end, at most len(r.tmp)
Space(rd) == Min(BufLen - Len(rd.buf), TmpLen)

\* the result of the pending read taken from readCh and copied into the buffer
Collect(rd) ==
    [rd EXCEPT !.readPending = FALSE, !.readCh = Tail(@), !.buf = @ \o rd.readCh[1].bytes]

\* available >= n
Enough(rd, n) == Len(rd.buf) >= n

\* an escape flag that is always taken as set
parseFlagSet(rd) == TRUE

parseFlag(rd) == rd.parse

RECURSIVE After(_, _)
\* ensureBytesWithTimeout(n) up to its select, or through it when it does not wait
Wt(rd, n, stage) ==
    IF Enough(rd, n) THEN After(rd, stage)
    ELSE IF rd.readPending /\ rd.readCh = <<>> THEN [rd EXCEPT !.pc = "wait", !.stage = stage]
    ELSE LET r1 == IF rd.readPending THEN Collect(rd) ELSE rd
         IN  IF rd.readPending /\ Enough(r1, n) THEN After(r1, stage)
             ELSE IF Space(r1) > 0
                  THEN [r1 EXCEPT !.readPending = TRUE, !.reading = @ + 1, !.space = Space(r1),
                                  !.pc = "wait", !.stage = stage]
                  ELSE After(r1, stage)

\* ReadKey after ensureBytesWithTimeout returned: ESC is taken, the buffer holds what follows
After(rd, stage) ==
    IF stage = 1
    THEN IF rd.buf = <<>> THEN RetEsc(rd, Sp(SpecialEscape), 0)
         ELSE IF rd.buf[1] = ChO THEN Wt(rd, 2, 2)
         ELSE IF rd.buf[1] = ChBracket THEN Wt(rd, 8, 3)
         ELSE IF IsPrintable(rd.buf[1]) THEN RetEsc(rd, KeyOf(rd.buf[1], ModAlt, SpecialNone), 1)
         ELSE RetEsc(rd, Sp(SpecialEscape), 0)
    ELSE IF stage = 2
    THEN IF Len(rd.buf) >= 2 THEN RetEsc(rd, parseBytes(<<ESC, ChO, rd.buf[2]>>), 2)
         ELSE RetEsc(rd, KeyOf(rd.buf[1], ModAlt, SpecialNone), 1)
    ELSE RetEsc(rd, parseBytes(<<ESC>> \o SubSeq(rd.buf, 1, csiEnd(rd.buf))), csiEnd(rd.buf))

\* ReadKey from its first byte on
First(rd) ==
    IF rd.buf[1] # ESC THEN Ret(rd, parseSingleByte(rd.buf[1]), NoErr, 1)
    ELSE IF ~parseFlag(rd) THEN Ret(rd, Sp(SpecialEscape), NoErr, 1)
    ELSE Wt([rd EXCEPT !.buf = Tail(@)], 1, 1)

\* an error returned though bytes are buffered
failsAlways(rd, err) == err # NoErr

\* ensureBytes returns the error: err != nil && r.end == r.pos
fails(rd, err) == err # NoErr /\ rd.buf = <<>>

\* ReadKey is called: ensureBytes(1) up to the point it blocks
ReadKeyCall(rd) ==
    IF Len(rd.buf) >= 1 THEN First(rd)
    ELSE IF rd.readPending THEN [rd EXCEPT !.pc = "recv"]
    ELSE [rd EXCEPT !.pc = "read"]

\* ensureBytes receives the result of the pending read
Recv(rd) ==
    LET r1 == Collect(rd)
    IN  IF fails(r1, rd.readCh[1].err) THEN Ret(r1, NoKey, rd.readCh[1].err, 0)
        ELSE IF Len(r1.buf) >= 1 THEN First(r1)
        ELSE [r1 EXCEPT !.pc = "read"]

\* ensureBytes reads
Read(rd, res) ==
    LET r1 == [res.rd EXCEPT !.buf = @ \o res.bytes]
    IN  IF fails(r1, res.err) THEN Ret(r1, NoKey, res.err, 0)
        ELSE First(r1)

\* the select of ensureBytesWithTimeout receives the result
WaitRecv(rd) == After(Collect(rd), rd.stage)
\* a select without the timer
WaitForever(rd) == rd
\* a select that forgets the read it has timed out on
WaitTimeoutForget(rd) == After([rd EXCEPT !.readPending = FALSE], rd.stage)

\* the select of ensureBytesWithTimeout times out
WaitTimeout(rd) == After(rd, rd.stage)

\* the goroutine of the asynchronous read: n, err := r.r.Read(...); r.readCh <- result
Async(rd, res) ==
    [res.rd EXCEPT !.reading = @ - 1,
                   !.readCh = Append(@, [bytes |-> res.bytes, err |-> res.err])]

MaxReads == 4

ReadKeyStep ==
    /\ reader.pc = "idle"
    /\ Len(reader.out) < MaxReads
    /\ reader' = ReadKeyCall(reader)
RecvStep ==
    /\ reader.pc = "recv"
    /\ reader.readCh # <<>>
    /\ reader' = Recv(reader)
ReadStep ==
    /\ reader.pc = "read"
    /\ SourceReady(reader)
    /\ \E res \in SourceRead(reader, Space(reader)) : reader' = Read(reader, res)
WaitRecvStep ==
    /\ reader.pc = "wait"
    /\ reader.readCh # <<>>
    /\ reader' = WaitRecv(reader)
WaitTimeoutStep ==
    /\ reader.pc = "wait"
    /\ reader' = WaitTimeout(reader)
AsyncStep ==
    /\ reader.reading > 0
    /\ SourceReady(reader)
    /\ \E res \in SourceRead(reader, reader.space) : reader' = Async(reader, res)
\* bytes arrive at the source
ArriveStep ==
    /\ reader.future # <<>>
    /\ reader' = [reader EXCEPT !.avail = @ \o Head(reader.future), !.future = Tail(@)]

InputIdle ==
    UNCHANGED <<stack, buffer, countBuffer, mu, timer, pending, pendingKeys, timers,
                threads, ncalls, hist, cancelled, panicked, tracing, intSize, router, text>>

NextRead ==
    \/ ReadKeyStep /\ InputIdle
    \/ RecvStep /\ InputIdle
    \/ ReadStep /\ InputIdle
    \/ WaitRecvStep /\ InputIdle
    \/ WaitTimeoutStep /\ InputIdle
    \/ AsyncStep /\ InputIdle
    \/ ArriveStep /\ InputIdle

\* SetParseEscapeSequences(parse) between two calls of ReadKey
SetParseStep ==
    /\ reader.pc = "idle"
    /\ \E p \in BOOLEAN : p # reader.parse /\ reader' = [reader EXCEPT !.parse = p]

\* the ways a byte string can arrive in pieces
RECURSIVE Chunkings(_)
Chunkings(s) ==
    IF s = <<>> THEN {<<>>}
    ELSE UNION {{<<SubSeq(s, 1, k)>> \o c : c \in Chunkings(SubSeq(s, k + 1, Len(s)))} :
                   k \in 1..Len(s)}

\* the streams read: a, ESC, ESC a, a ESC b, ESC ESC, ESC [ A, ESC O P, ESC [ 3 ~,
\* ESC [ 1 ; 5 A, ESC ctrl-A
ReadStreams ==
    {<<97>>, <<ESC>>, <<ESC, 97>>, <<97, ESC, 98>>, <<ESC, ESC>>, <<ESC, ChBracket, ChA>>,
     <<ESC, ChO, 80>>, <<ESC, ChBracket, 51, ChTilde>>,
     <<ESC, ChBracket, Ch1, ChSemi, 53, ChA>>, <<ESC, 1>>}
\* what a source reports at its end: nothing (it blocks), io.EOF, or another error
SourceEnds == {"none", "EOF", "ErrClosed"}

InitRead ==
    /\ stack = <<"normal">>
    /\ buffer = <<>>
    /\ countBuffer = <<>>
    /\ mu = MuFree
    /\ timer = 0
    /\ pending = NoHandler
    /\ pendingKeys = <<>>
    /\ timers = <<>>
    /\ threads = [t \in Callers |-> <<>>]
    /\ ncalls = 0
    /\ hist = <<>>
    /\ cancelled = {}
    /\ panicked = FALSE
    /\ intSize = 64
    /\ text = NoText
    /\ router = NewNamedRouter
    /\ tracing = TRUE
    /\ \E s \in ReadStreams, e \in SourceEnds :
          \E f \in Chunkings(s) : reader = NewReader(<<>>, f, e)

NextReadKeys ==
    \/ NextRead
    \/ SetParseStep /\ InputIdle
SpecRead == InitRead /\ [][NextReadKeys]_vars
\* the reader's own steps are taken: a timer of time.After fires, a goroutine that can run
\* does
ReaderProgress ==
    (RecvStep \/ ReadStep \/ WaitRecvStep \/ WaitTimeoutStep \/ AsyncStep) /\ InputIdle
SpecReadFair == SpecRead /\ WF_vars(ReaderProgress)

\* the bytes of the keys returned so far, in order
Decoded == Concat([i \in 1..Len(reader.out) |-> reader.out[i].bytes])
DecodedBefore(i) == Concat([j \in 1..(i - 1) |-> reader.out[j].bytes])
\* the ESC a call of ReadKey has taken from the buffer while it waits for what follows
Held == IF reader.pc = "wait" THEN <<ESC>> ELSE <<>>
\* the bytes not decoded yet: buffered, read by the goroutine, or still with the source
Undecoded ==
    reader.buf \o Concat([i \in 1..Len(reader.readCh) |-> reader.readCh[i].bytes])
               \o reader.avail \o Concat(reader.future)
Returned(i) == i \in 1..Len(reader.out)

(***************************************************************************)
(* C24: ReadKey returns an error only when the source has reported its end *)
(* (EOF or another error) and no undecoded byte is buffered, and the error *)
(* is the source's; every byte delivered before the end has by then been   *)
(* decoded into a key, in stream order, and no byte is ever dropped or     *)
(* reordered.                                                              *)
(***************************************************************************)
C24_ErrorOnlyAtEnd ==
    /\ Decoded \o Held \o Undecoded = reader.stream
    /\ \A i \in 1..Len(reader.out) :
          reader.out[i].err # NoErr =>
              /\ reader.out[i].err = reader.end
              /\ Undecoded = <<>>
              /\ DecodedBefore(i) = reader.stream
              /\ reader.out[i].bytes = <<>>

\* a, ESC, b were decoded as three keys, and then the end of the stream was returned
C24_Witness ==
    /\ reader.stream = <<97, ESC, 98>>
    /\ Len(reader.out) = 3 + 1
    /\ reader.out[1].key = Rune(97)
    /\ reader.out[2].key = Sp(SpecialEscape)
    /\ reader.out[3].key = Rune(98)
    /\ reader.out[4].err = "EOF"

LastOut == reader.out[Len(reader.out)]
\* ReadKey is blocked in ensureBytes
Blocked == reader.pc \in {"recv", "read"}
\* bytes have reached the source, the goroutine or the buffer and are not decoded yet
Arrived ==
    reader.buf # <<>> \/ reader.avail # <<>>
        \/ \E i \in 1..Len(reader.readCh) : reader.readCh[i].bytes # <<>>

(***************************************************************************)
(* C25: with escape parsing enabled, when byte 27 was read and the wait    *)
(* for a following byte times out, ReadKey returns the standalone Escape   *)
(* key; every wait of ReadKey ends, whether or not the source ever         *)
(* delivers anything; the keys returned are decoded from the stream's      *)
(* bytes in order, and a call of ReadKey that finds a byte arrived later   *)
(* returns.                                                                *)
(***************************************************************************)
C25_EscapeAfterWait ==
    /\ [][WaitTimeoutStep /\ reader.stage = 1 /\ reader.buf = <<>> =>
            /\ reader'.pc = "idle"
            /\ reader'.out = Append(reader.out,
                                    [key |-> Sp(SpecialEscape), err |-> NoErr,
                                     bytes |-> <<ESC>>, pending |-> TRUE])
            /\ reader'.readPending]_vars
    /\ [](Decoded \o Held \o Undecoded = reader.stream)
    /\ (reader.pc = "wait") ~> (reader.pc = "idle")
    /\ (Blocked /\ Arrived) ~> (reader.pc = "idle")

\* ESC was returned as Escape after the wait, the read still pending, and the a that
\* arrived later was returned by the next call
C25_Witness ==
    /\ reader.stream = <<ESC, 97>>
    /\ Len(reader.out) = 2
    /\ reader.out[1] = [key |-> Sp(SpecialEscape), err |-> NoErr, bytes |-> <<ESC>>,
                        pending |-> TRUE]
    /\ reader.out[2].key = Rune(97)
    /\ reader.out[2].bytes = <<97>>

(***************************************************************************)
(* C26: while parse-escape-sequences is false, ReadKey starts no           *)
(* background read and enters no bounded wait, and every key it returns is *)
(* decoded from one byte alone: byte 27 is returned as Escape by the step  *)
(* that reads it, and the bytes after it are returned as keys of their     *)
(* own.                                                                    *)
(***************************************************************************)
C26_EscapeImmediate ==
    [][~reader.parse =>
          /\ reader'.pc # "wait"
          /\ reader'.reading <= reader.reading
          /\ reader'.readPending => reader.readPending
          /\ reader'.out # reader.out /\ reader'.out[Len(reader'.out)].err = NoErr =>
                /\ Len(reader'.out[Len(reader'.out)].bytes) = 1
                /\ reader'.out[Len(reader'.out)].key =
                       parseSingleByte(reader'.out[Len(reader'.out)].bytes[1])
                /\ reader'.out[Len(reader'.out)].bytes[1] = ESC =>
                       reader'.out[Len(reader'.out)].key = Sp(SpecialEscape)]_vars

\* ESC [ A was returned as the three keys Escape, '[' and 'A', no read ever pending
C26_Witness ==
    /\ ~reader.parse
    /\ reader.stream = <<ESC, ChBracket, ChA>>
    /\ Len(reader.out) = 3
    /\ reader.out[1] = [key |-> Sp(SpecialEscape), err |-> NoErr, bytes |-> <<ESC>>,
                        pending |-> FALSE]
    /\ reader.out[2].key = Rune(ChBracket)
    /\ reader.out[3].key = Rune(ChA)
    /\ \A i \in 1..3 : ~reader.out[i].pending

(***************************************************************************)
(* Decoding of escape sequences that the Reader has in one piece: the      *)
(* whole stream is returned by the first Read.                             *)
(***************************************************************************)
Modifiers == {"shift", "alt", "ctrl"}
\* the parameter M of a modified CSI sequence as a byte: '1' + shift(1) + alt(2) + ctrl(4)
ModByte(mods) ==
    Ch1 + (IF "shift" \in mods THEN 1 ELSE 0) + (IF "alt" \in mods THEN 2 ELSE 0)
        + (IF "ctrl" \in mods THEN 4 ELSE 0)
ModOf(mods) ==
    (IF "shift" \in mods THEN ModShift ELSE 0) + (IF "alt" \in mods THEN ModAlt ELSE 0)
        + (IF "ctrl" \in mods THEN ModCtrl ELSE 0)
\* the final letters A B C D H F and the numbers of the tilde form, with the keys they name
CsiLetters == {65, 66, 67, 68, 72, 70}
TildeNums == (1..8) \cup (11..15) \cup (17..21) \cup (23..24)
LetterKey(c) ==
    IF c = 65 THEN SpecialUp ELSE IF c = 66 THEN SpecialDown ELSE IF c = 67 THEN SpecialRight
    ELSE IF c = 68 THEN SpecialLeft ELSE IF c = 72 THEN SpecialHome ELSE SpecialEnd
TildeKey(n) ==
    IF n \in {1, 7} THEN SpecialHome ELSE IF n = 2 THEN SpecialInsert
    ELSE IF n = 3 THEN SpecialDelete ELSE IF n \in {4, 8} THEN SpecialEnd
    ELSE IF n = 5 THEN SpecialPageUp ELSE IF n = 6 THEN SpecialPageDown
    ELSE IF n <= 15 THEN SpecialF1 + (n - 11)
    ELSE IF n <= 21 THEN SpecialF1 + (n - 12)
    ELSE SpecialF1 + (n - 13)
\* the decimal digits of a number below 100
Decimal(n) == IF n < 10 THEN <<Ch0 + n>> ELSE <<Ch0 + (n \div 10), Ch0 + (n % 10)>>

\* the modified CSI sequences: ESC [ 1 ; M letter and ESC [ N ; M ~, M in 2..8
CsiCases ==
    {[letter |-> c, num |-> 1, mods |-> m] : c \in CsiLetters, m \in (SUBSET Modifiers) \ {{}}}
    \cup {[letter |-> ChTilde, num |-> n, mods |-> m] :
             n \in TildeNums, m \in (SUBSET Modifiers) \ {{}}}
CsiBytes(c) == <<ESC, ChBracket>> \o Decimal(c.num) \o <<ChSemi, ModByte(c.mods), c.letter>>
CsiKey(c) ==
    KeyOf(0, ModOf(c.mods), IF c.letter = ChTilde THEN TildeKey(c.num) ELSE LetterKey(c.letter))

\* the bytes that follow ESC in the other streams: ESC [ O 1 ; 5 A ~ 0 +
MaxTail == 4
TailBytes == {ESC, ChBracket, ChO, Ch1, ChSemi, 53, ChA, ChTilde, Ch0, ChPlus}
EscStreams == {<<ESC>> \o t : t \in UNION {[1..n -> TailBytes] : n \in 0..MaxTail}}
\* a modified CSI sequence alone, or with the byte x after it
CsiStreams == {CsiBytes(c) : c \in CsiCases} \cup {CsiBytes(c) \o <<120>> : c \in CsiCases}

InitDecode ==
    /\ stack = <<"normal">>
    /\ buffer = <<>>
    /\ countBuffer = <<>>
    /\ mu = MuFree
    /\ timer = 0
    /\ pending = NoHandler
    /\ pendingKeys = <<>>
    /\ timers = <<>>
    /\ threads = [t \in Callers |-> <<>>]
    /\ ncalls = 0
    /\ hist = <<>>
    /\ cancelled = {}
    /\ panicked = FALSE
    /\ intSize = 64
    /\ text = NoText
    /\ router = NewNamedRouter
    /\ tracing = TRUE
    /\ \E s \in CsiStreams \cup EscStreams, e \in {"none", "EOF"} :
          reader = NewReader(s, <<>>, e)

NextDecode ==
    \/ ReadKeyStep /\ InputIdle
    \/ RecvStep /\ InputIdle
    \/ ReadStep /\ InputIdle
    \/ WaitRecvStep /\ InputIdle
    \/ WaitTimeoutStep /\ InputIdle
    \/ AsyncStep /\ InputIdle
SpecDecode == InitDecode /\ [][NextDecode]_vars

(***************************************************************************)
(* C27: a stream that begins with ESC [ 1 ; M letter (letter one of A B C  *)
(* D H F) or ESC [ N ; M ~ (N a number of the tilde table), M in 2..8,     *)
(* read in one piece, gives as its first key the special key named by the  *)
(* letter or by N with the modifiers of M = 1 + shift(1) + alt(2) +        *)
(* ctrl(4), decoded from exactly the bytes of the sequence; a byte after   *)
(* it is the next key.                                                     *)
(***************************************************************************)
C27_ModifiedCsi ==
    \A c \in CsiCases :
        /\ IsPrefix(CsiBytes(c), reader.stream) /\ Len(reader.out) >= 1 =>
              reader.out[1] = [key |-> CsiKey(c), err |-> NoErr, bytes |-> CsiBytes(c),
                               pending |-> reader.out[1].pending]
        /\ reader.stream = CsiBytes(c) \o <<120>> /\ Len(reader.out) >= 2 =>
              reader.out[2].key = Rune(120) /\ reader.out[2].bytes = <<120>>

\* ESC [ 1 ; 5 A was returned as Ctrl+Up
C27_Witness ==
    /\ reader.stream = <<ESC, ChBracket, Ch1, ChSemi, 53, ChA>>
    /\ Len(reader.out) >= 1
    /\ reader.out[1].key = KeyOf(0, ModCtrl, SpecialUp)

\* the final bytes of the SS3 sequences (P Q R S H F A B C D) and of the plain CSI sequences
Ss3Letters == (80..83) \cup {72, 70, 65, 66, 67, 68}
PlainCsiLetters == CsiLetters \cup {ChZ}
\* the position of the first letter or ~ after ESC [, 0 when there is none
Term(s) ==
    IF \E i \in 3..Len(s) : IsTerminator(s[i])
    THEN CHOOSE i \in 3..Len(s) : IsTerminator(s[i]) /\ \A j \in 3..(i - 1) : ~IsTerminator(s[j])
    ELSE 0
\* ESC and a printable byte that introduces nothing, or that nothing follows
AltForm(s) ==
    Len(s) >= 2 /\ s[2] \in 32..126 /\ (s[2] \notin {ChBracket, ChO} \/ Len(s) = 2)
Ss3Form(s) == Len(s) >= 3 /\ s[2] = ChO /\ s[3] \in Ss3Letters
CsiLetterForm(s) == Len(s) >= 3 /\ s[2] = ChBracket /\ s[3] \in PlainCsiLetters
CsiTildeForm(s) ==
    \E n \in TildeNums : IsPrefix(<<ESC, ChBracket>> \o Decimal(n) \o <<ChTilde>>, s)
\* N ; M with M in 1..8
CsiModForm(s) ==
    \E c \in CsiCases \cup {[x EXCEPT !.mods = {}] : x \in CsiCases} : IsPrefix(CsiBytes(c), s)
\* the stream begins with a sequence of one of the known forms
KnownForm(s) ==
    AltForm(s) \/ Ss3Form(s) \/ CsiLetterForm(s) \/ CsiTildeForm(s) \/ CsiModForm(s)

(***************************************************************************)
(* C28, as stated: a stream that begins with ESC and matches none of the   *)
(* known forms (SS3, CSI letter, CSI numeric-tilde, CSI with modifier, ESC *)
(* plus printable character) makes the first ReadKey return Escape with a  *)
(* nil error.                                                              *)
(***************************************************************************)
C28_UnknownIsEscape ==
    Len(reader.out) >= 1 /\ reader.stream[1] = ESC =>
        /\ reader.out[1].err = NoErr
        /\ ~KnownForm(reader.stream) => reader.out[1].key = Sp(SpecialEscape)

RECURSIVE StripZeros(_)
StripZeros(p) == IF Len(p) > 1 /\ p[1] = Ch0 THEN StripZeros(Tail(p)) ELSE p
\* a number of the tilde table, written with or without a + sign and leading zeros
SpellsTildeNum(p) ==
    LET q == IF p # <<>> /\ p[1] = ChPlus THEN Tail(p) ELSE p
    IN  q # <<>> /\ \E n \in TildeNums : StripZeros(q) = Decimal(n)
\* what stands before the first ; of the parameters
FirstParam(p) == IF IndexSemi(p) = 0 THEN p ELSE SubSeq(p, 1, IndexSemi(p) - 1)
\* ESC [ 1 ; m letter with any byte m that is no letter and no ~, and ESC [ N rest ~ with
\* N spelling a number of the table and rest empty or beginning with ;
LooseCsiForm(s) ==
    /\ Len(s) >= 3
    /\ s[2] = ChBracket
    /\ Term(s) # 0
    /\ \/ Term(s) = 6 /\ s[3] = Ch1 /\ s[4] = ChSemi /\ s[6] \in CsiLetters
       \/ s[Term(s)] = ChTilde /\ SpellsTildeNum(FirstParam(SubSeq(s, 3, Term(s) - 1)))
LooseForm(s) == AltForm(s) \/ Ss3Form(s) \/ CsiLetterForm(s) \/ LooseCsiForm(s)

(***************************************************************************)
(* C28, amended: the first ReadKey on a stream that begins with ESC        *)
(* returns a nil error, and it returns Escape unless the stream begins     *)
(* with ESC and a printable byte alone, an SS3 or plain CSI sequence of    *)
(* the table, or a CSI sequence read leniently: ESC [ 1 ; m letter with    *)
(* any byte m that is not a terminator, or ESC [ N ... ~ in which N spells *)
(* a number of the table, with or without sign and leading zeros, whatever *)
(* follows its first ';'.                                                  *)
(***************************************************************************)
C28_UnknownIsEscapeLoose ==
    Len(reader.out) >= 1 /\ reader.stream[1] = ESC =>
        /\ reader.out[1].err = NoErr
        /\ ~LooseForm(reader.stream) => reader.out[1].key = Sp(SpecialEscape)

\* ESC [ ; 5 ~ names no key: it was returned as Escape, decoded from the whole sequence
C28_Witness ==
    /\ reader.stream = <<ESC, ChBracket, ChSemi, 53, ChTilde>>
    /\ Len(reader.out) >= 1
    /\ reader.out[1] = [key |-> Sp(SpecialEscape), err |-> NoErr,
                        bytes |-> reader.stream, pending |-> reader.out[1].pending]

(***************************************************************************)
(* The escape-sequence flag of a Router under Handle, HandleNamed, Rebind  *)
(* and Reset (TestHasEscapeSequences).                                     *)
(***************************************************************************)
MaxRouterOps == 3

KUp == Sp(SpecialUp)
KAltX == KeyOf(120, ModAlt, SpecialNone)
KShiftTab == KeyOf(0, ModShift, SpecialTab)
\* the patterns registered: "x", "<Up>", "<A-x>", "<S-Tab>", "g<Up>" and ""
FlagPatterns == {<<Kx>>, <<KUp>>, <<KAltX>>, <<KShiftTab>>, <<Kg, KUp>>, <<>>}
HandlerOf(name) == IF name = "scroll_down" THEN "down" ELSE "up"

InitRouter ==
    /\ stack = <<"named">>
    /\ buffer = <<>>
    /\ countBuffer = <<>>
    /\ mu = MuFree
    /\ timer = 0
    /\ pending = NoHandler
    /\ pendingKeys = <<>>
    /\ timers = <<>>
    /\ threads = [t \in Callers |-> <<>>]
    /\ ncalls = 0
    /\ hist = <<>>
    /\ cancelled = {}
    /\ panicked = FALSE
    /\ intSize = 64
    /\ text = NoText
    /\ router = NewNamedRouter
    /\ reader = NoReader
    /\ tracing = TRUE

\* a call on the router: it becomes R
RouterCall(R) ==
    /\ ncalls < MaxRouterOps
    /\ router' = R
    /\ ncalls' = ncalls + 1
    /\ UNCHANGED <<stack, buffer, countBuffer, mu, timer, pending, pendingKeys, timers,
                   threads, hist, cancelled, panicked, tracing, intSize, reader, text>>

RouterHandle == \E p \in FlagPatterns : RouterCall(Handle(router, p, "h"))
RouterHandleNamed ==
    \E n \in Names, p \in FlagPatterns : RouterCall(HandleNamed(router, n, p, HandlerOf(n)))
RouterRebind == \E n \in Names, p \in FlagPatterns : RouterCall(Rebind(router, n, p))
RouterReset == \E n \in Names : RouterCall(Reset(router, n))

NextRouter ==
    \/ RouterHandle
    \/ RouterHandleNamed
    \/ RouterRebind
    \/ RouterReset
SpecRouter == InitRouter /\ [][NextRouter]_vars

\* the patterns that have a handler
RegisteredPatterns == {n \in router.trie.nodes : router.trie.handler[n] # NoHandler}
\* the byte sequences beginning with ESC that the Reader decodes as one key of a table
EscapeSeqs ==
    {<<ESC, b>> : b \in 32..126}
    \cup {<<ESC, ChBracket, c>> : c \in PlainCsiLetters}
    \cup {<<ESC, ChO, c>> : c \in Ss3Letters}
    \cup {<<ESC, ChBracket>> \o Decimal(n) \o <<ChTilde>> : n \in TildeNums}
    \cup {CsiBytes(c) : c \in CsiCases}
\* a key the Reader produces from an escape sequence and from no single byte
EscapeOnly(k) ==
    /\ \E s \in EscapeSeqs : parseBytes(s) = k
    /\ \A b \in Bytes : parseSingleByte(b) # k

(***************************************************************************)
(* C23: after any sequence of Handle, HandleNamed, Rebind and Reset calls, *)
(* HasEscapeSequences() is true if and only if some registered pattern     *)
(* contains a key that the Reader produces only from a multi-byte escape   *)
(* sequence.                                                               *)
(***************************************************************************)
C23_FlagIffEscapeKey ==
    router.hasEscapeSequences <=>
        \E p \in RegisteredPatterns : \E i \in 1..Len(p) : EscapeOnly(p[i])


(***************************************************************************)
(* Input.Run: the loop that reads keys from a Reader and dispatches them.  *)
(* Run is a frame of goroutine 1 below the Dispatch frames it calls:       *)
(*   pc "start"   before the lock that sets the reader's escape flag       *)
(*      "loop"    about to call ReadKey                                    *)
(*      "reading" inside ReadKey                                           *)
(*      "dispatching" inside Dispatch                                      *)
(*      "after"   Dispatch has returned, its result is in ret              *)
(*   h  the afterDispatch callback, NoHandler for nil                      *)
(* The history records each call of afterDispatch with its argument and    *)
(* the return of Run with its error.                                       *)
(***************************************************************************)
RunFrame(cb) == [Frame("Run", "start", NoKey, "") EXCEPT !.h = cb]
InRun(pc) == Depth(1) = 1 /\ threads[1][1].op = "Run" /\ threads[1][1].pc = pc
RunPc(pc) == [threads EXCEPT ![1] = <<[threads[1][1] EXCEPT !.pc = pc]>>]

\* i.mu.Lock(); r.SetParseEscapeSequences(top.HasEscapeSequences()); i.mu.Unlock()
RunStart ==
    /\ ~panicked
    /\ InRun("start")
    /\ mu = MuFree
    /\ reader' = IF Len(stack) > 0
                 THEN [reader EXCEPT !.parse =
                         IF stack[Len(stack)] = "named" THEN router.hasEscapeSequences
                         ELSE FALSE]
                 ELSE reader
    /\ threads' = RunPc("loop")
    /\ UNCHANGED <<stack, buffer, countBuffer, mu, timer, pending, pendingKeys, timers,
                   ncalls, hist, cancelled, panicked, tracing, intSize, router, text>>

\* key, err := r.ReadKey(): the call
RunReadKey ==
    /\ ~panicked
    /\ InRun("loop")
    /\ ReadKeyStep
    /\ threads' = RunPc("reading")
    /\ UNCHANGED <<stack, buffer, countBuffer, mu, timer, pending, pendingKeys, timers,
                   ncalls, hist, cancelled, panicked, tracing, intSize, router, text>>

\* ReadKey has returned: return err, or handled := i.Dispatch(key)
RunGot ==
    /\ ~panicked
    /\ InRun("reading")
    /\ reader.pc = "idle"
    /\ IF LastOut.err # NoErr
       THEN /\ threads' = [threads EXCEPT ![1] = <<>>]
            /\ hist' = Append(hist, Ev("Run", 1, NoKey, threads[1][1].h, <<>>, 0,
                                               LastOut.err, 0, FALSE))
            /\ UNCHANGED ncalls
       ELSE /\ threads' = [threads EXCEPT ![1] =
                             <<[threads[1][1] EXCEPT !.pc = "dispatching"],
                               Frame("Dispatch", "lock", LastOut.key, "")>>]
            /\ ncalls' = ncalls + 1
            /\ UNCHANGED hist
    /\ UNCHANGED <<stack, buffer, countBuffer, mu, timer, pending, pendingKeys, timers,
                   cancelled, panicked, tracing, intSize, router, reader, text>>

\* if afterDispatch != nil { afterDispatch(handled) }, and the loop goes round
RunAfter ==
    /\ ~panicked
    /\ InRun("after")
    /\ hist' = IF threads[1][1].h # NoHandler
               THEN Append(hist, Ev("afterDispatch", 1, NoKey, threads[1][1].h, <<>>, 0, "", 0,
                                    threads[1][1].ret))
               ELSE hist
    /\ threads' = RunPc("loop")
    /\ UNCHANGED <<stack, buffer, countBuffer, mu, timer, pending, pendingKeys, timers,
                   ncalls, cancelled, panicked, tracing, intSize, router, reader, text>>

\* the routers of the runs: j and k; and g, gg, j and <Up>, whose flag is set
RunPlain == Handle(Handle(NewNamedRouter, <<Kj>>, "down"), <<Kk>>, "up")
RunEsc ==
    Handle(Handle(Handle(Handle(NewNamedRouter, <<Kg>>, "g"), <<Kg, Kg>>, "gg"),
                  <<Kj>>, "down"), <<KUp>>, "cursor_up")
\* the streams of the runs: j k j, g g, g j, ESC [ A j, x, ESC
RunStreams ==
    {<<106, 107, 106>>, <<103, 103>>, <<103, 106>>, <<ESC, ChBracket, ChA, 106>>, <<120>>,
     <<ESC>>}

InitRun ==
    /\ stack = <<"named">>
    /\ buffer = <<>>
    /\ countBuffer = <<>>
    /\ mu = MuFree
    /\ timer = 0
    /\ pending = NoHandler
    /\ pendingKeys = <<>>
    /\ timers = <<>>
    /\ \E cb \in {NoHandler, "afterDispatch"} :
          threads = [t \in Callers |-> IF t = 1 THEN <<RunFrame(cb)>> ELSE <<>>]
    /\ ncalls = 0
    /\ hist = <<>>
    /\ cancelled = {}
    /\ panicked = FALSE
    /\ intSize = 64
    /\ text = NoText
    /\ router \in {RunPlain, RunEsc}
    /\ tracing = TRUE
    /\ \E s \in RunStreams, e \in SourceEnds :
          \E f \in Chunkings(s) : reader = NewReader(<<>>, f, e)

NextRun ==
    \/ RunStart
    \/ RunReadKey
    \/ RecvStep /\ InputIdle
    \/ ReadStep /\ InputIdle
    \/ WaitRecvStep /\ InputIdle
    \/ WaitTimeoutStep /\ InputIdle
    \/ AsyncStep /\ InputIdle
    \/ ArriveStep /\ InputIdle
    \/ RunGot
    \/ RunAfter
    \/ LockStep
    \/ DispatchStep
    \/ TimerStep
    \/ InvokeStep
    \/ HandlerReturnStep
    \/ ReturnStep
    \/ ExpireStep
SpecRun == InitRun /\ [][NextRun]_vars

\* the keys ReadKey has returned, in order
KeysRead == [i \in 1..Len(SelectSeq(reader.out, LAMBDA o : o.err = NoErr)) |->
               SelectSeq(reader.out, LAMBDA o : o.err = NoErr)[i].key]
\* the critical sections of Dispatch and the calls of afterDispatch, in order
IsLoopEv(e) == e.ev \in {"Dispatch", "afterDispatch"}
LoopEvs == SelectSeq(hist, IsLoopEv)
Dispatches == SelectSeq(hist, IsDispatch)
IsAfter(e) == e.ev = "afterDispatch"
Afters == SelectSeq(hist, IsAfter)
IsRunRet(e) == e.ev = "Run"
RunRets == SelectSeq(hist, IsRunRet)
RunReturned == RunRets # <<>>
\* the afterDispatch given to Run
Callback == IF RunReturned THEN RunRets[1].h ELSE threads[1][1].h

(***************************************************************************)
(* C29: Run sets the reader's escape flag from the active router, then     *)
(* dispatches the keys ReadKey returns, each exactly once and in the order *)
(* returned; afterDispatch, when given, is called exactly once after each  *)
(* Dispatch, before the next one, with that Dispatch's result, and never   *)
(* when nil; Run returns once, with the error ReadKey returned, which is   *)
(* the source's, after every byte of the stream has been decoded and every *)
(* key dispatched and followed by its afterDispatch.                       *)
(***************************************************************************)
C29_RunLoop ==
    /\ ~InRun("start") => reader.parse = router.hasEscapeSequences
    /\ Len(Dispatches) <= Len(KeysRead)
    /\ Len(Dispatches) >= Len(KeysRead) - 1
    /\ \A i \in 1..Len(Dispatches) : Dispatches[i].key = KeysRead[i] /\ Dispatches[i].t = 1
    /\ Callback = NoHandler => Afters = <<>>
    /\ Callback # NoHandler =>
          \A i \in 1..Len(LoopEvs) :
             /\ IsDispatch(LoopEvs[i]) <=> i % 2 = 1
             /\ IsAfter(LoopEvs[i]) => LoopEvs[i].ret = LoopEvs[i - 1].ret
    /\ Len(RunRets) <= 1
    /\ RunReturned =>
          /\ \A i, j \in 1..Len(hist) : IsRunRet(hist[i]) /\ IsLoopEv(hist[j]) => j < i
          /\ RunRets[1].via = LastOut.err
          /\ RunRets[1].via = reader.end
          /\ RunRets[1].via # NoErr
          /\ Decoded = reader.stream
          /\ Len(Dispatches) = Len(KeysRead)
          /\ Callback # NoHandler => Len(Afters) = Len(Dispatches)
          /\ Len(reader.out) = Len(KeysRead) + 1


\* Run has returned io.EOF after three keys, the second of them unhandled, each followed by
\* the callback
C29_Witness ==
    /\ RunReturned
    /\ RunRets[1].via = "EOF"
    /\ Callback # NoHandler
    /\ Len(Dispatches) = 3
    /\ Len(Afters) = 3
    /\ Afters[1].ret
    /\ ~Afters[2].ret


(***************************************************************************)
(* Key.String and ParsePattern.  A string is the sequence of its bytes     *)
(* (UTF-8); code points are those of the Basic Multilingual Plane.         *)
(***************************************************************************)
ChLt == 60
ChGt == 62
ChUpperC == 67
ChUpperS == 83
ChLowerC == 99
ChLowerM == 109
ChLowerS == 115

\* string(r): the UTF-8 encoding of a code point
Utf8(r) ==
    IF r < 128 THEN <<r>>
    ELSE IF r < 2048 THEN <<192 + (r \div 64), 128 + (r % 64)>>
    ELSE <<224 + (r \div 4096), 128 + ((r \div 64) % 64), 128 + (r % 64)>>

IsCont(c) == c \in 128..191
RECURSIVE Runes(_)
\* []rune(s): a byte that begins no encoding is U+FFFD
Runes(s) ==
    IF s = <<>> THEN <<>>
    ELSE IF s[1] < 128 THEN <<s[1]>> \o Runes(Tail(s))
    ELSE IF s[1] \in 194..223 /\ Len(s) >= 2 /\ IsCont(s[2])
    THEN <<(s[1] - 192) * 64 + (s[2] - 128)>> \o Runes(SubSeq(s, 3, Len(s)))
    ELSE IF s[1] \in 224..239 /\ Len(s) >= 3 /\ IsCont(s[2]) /\ IsCont(s[3])
    THEN <<(s[1] - 224) * 4096 + (s[2] - 128) * 64 + (s[3] - 128)>>
            \o Runes(SubSeq(s, 4, Len(s)))
    ELSE <<65533>> \o Runes(Tail(s))

RECURSIVE Encode(_)
\* string(runes)
Encode(rs) == IF rs = <<>> THEN <<>> ELSE Utf8(rs[1]) \o Encode(Tail(rs))

\* unicode.ToLower on ASCII and Latin-1
LowerRune(r) ==
    IF r \in 65..90 THEN r + 32
    ELSE IF r \in 192..222 /\ r # 215 THEN r + 32
    ELSE r
\* strings.ToLower
ToLower(s) == LET rs == Runes(s) IN Encode([i \in 1..Len(rs) |-> LowerRune(rs[i])])

\* the index of the first b in s, 0 when there is none
IndexByte(s, b) ==
    IF \E i \in 1..Len(s) : s[i] = b
    THEN CHOOSE i \in 1..Len(s) : s[i] = b /\ \A j \in 1..(i - 1) : s[j] # b
    ELSE 0

RECURSIVE Split(_)
\* strings.Split(s, "-")
Split(s) ==
    LET i == IndexByte(s, ChMinus)
    IN  IF i = 0 THEN <<s>>
        ELSE <<SubSeq(s, 1, i - 1)>> \o Split(SubSeq(s, i + 1, Len(s)))

RECURSIVE Join(_)
\* strings.Join(parts, "-")
Join(parts) ==
    IF Len(parts) = 0 THEN <<>>
    ELSE IF Len(parts) = 1 THEN parts[1]
    ELSE parts[1] \o <<ChMinus>> \o Join(Tail(parts))

\* specialToVim, by the number of the special key
specialToVim ==
    <<
      <<69, 115, 99>>,                             \* Esc
      <<67, 82>>,                                  \* CR
      <<84, 97, 98>>,                              \* Tab
      <<83, 112, 97, 99, 101>>,                    \* Space
      <<66, 83>>,                                  \* BS
      <<85, 112>>,                                 \* Up
      <<68, 111, 119, 110>>,                       \* Down
      <<76, 101, 102, 116>>,                       \* Left
      <<82, 105, 103, 104, 116>>,                  \* Right
      <<72, 111, 109, 101>>,                       \* Home
      <<69, 110, 100>>,                            \* End
      <<80, 97, 103, 101, 85, 112>>,               \* PageUp
      <<80, 97, 103, 101, 68, 111, 119, 110>>,     \* PageDown
      <<73, 110, 115, 101, 114, 116>>,             \* Insert
      <<68, 101, 108>>,                            \* Del
      <<70, 49>>,                                  \* F1
      <<70, 50>>,                                  \* F2
      <<70, 51>>,                                  \* F3
      <<70, 52>>,                                  \* F4
      <<70, 53>>,                                  \* F5
      <<70, 54>>,                                  \* F6
      <<70, 55>>,                                  \* F7
      <<70, 56>>,                                  \* F8
      <<70, 57>>,                                  \* F9
      <<70, 49, 48>>,                              \* F10
      <<70, 49, 49>>,                              \* F11
      <<70, 49, 50>>                               \* F12
    >>

\* vimToSpecial: the lower-case names and their special keys
vimToSpecial ==
    {
      <<<<101, 115, 99>>, 1>>,                                     \* esc
      <<<<101, 115, 99, 97, 112, 101>>, 1>>,                       \* escape
      <<<<99, 114>>, 2>>,                                          \* cr
      <<<<101, 110, 116, 101, 114>>, 2>>,                          \* enter
      <<<<114, 101, 116, 117, 114, 110>>, 2>>,                     \* return
      <<<<116, 97, 98>>, 3>>,                                      \* tab
      <<<<115, 112, 97, 99, 101>>, 4>>,                            \* space
      <<<<98, 115>>, 5>>,                                          \* bs
      <<<<98, 97, 99, 107, 115, 112, 97, 99, 101>>, 5>>,           \* backspace
      <<<<117, 112>>, 6>>,                                         \* up
      <<<<100, 111, 119, 110>>, 7>>,                               \* down
      <<<<108, 101, 102, 116>>, 8>>,                               \* left
      <<<<114, 105, 103, 104, 116>>, 9>>,                          \* right
      <<<<104, 111, 109, 101>>, 10>>,                              \* home
      <<<<101, 110, 100>>, 11>>,                                   \* end
      <<<<112, 97, 103, 101, 117, 112>>, 12>>,                     \* pageup
      <<<<112, 97, 103, 101, 100, 111, 119, 110>>, 13>>,           \* pagedown
      <<<<105, 110, 115, 101, 114, 116>>, 14>>,                    \* insert
      <<<<100, 101, 108>>, 15>>,                                   \* del
      <<<<100, 101, 108, 101, 116, 101>>, 15>>,                    \* delete
      <<<<102, 49>>, 16>>,                                         \* f1
      <<<<102, 50>>, 17>>,                                         \* f2
      <<<<102, 51>>, 18>>,                                         \* f3
      <<<<102, 52>>, 19>>,                                         \* f4
      <<<<102, 53>>, 20>>,                                         \* f5
      <<<<102, 54>>, 21>>,                                         \* f6
      <<<<102, 55>>, 22>>,                                         \* f7
      <<<<102, 56>>, 23>>,                                         \* f8
      <<<<102, 57>>, 24>>,                                         \* f9
      <<<<102, 49, 48>>, 25>>,                                     \* f10
      <<<<102, 49, 49>>, 26>>,                                     \* f11
      <<<<102, 49, 50>>, 27>>                                      \* f12
    }
IsVimName(lower) == \E p \in vimToSpecial : p[1] = lower
SpecialOf(lower) == (CHOOSE p \in vimToSpecial : p[1] = lower)[2]

\* Key.String: the parts C, A, S
modParts(k) ==
    (IF HasMod(k.Mod, ModCtrl) THEN <<<<ChUpperC>>>> ELSE <<>>)
       \o (IF HasMod(k.Mod, ModAlt) THEN <<<<ChA>>>> ELSE <<>>)
       \o (IF HasMod(k.Mod, ModShift) THEN <<<<ChUpperS>>>> ELSE <<>>)

\* Key.String
String(k) ==
    IF k.Special = SpecialNone /\ k.Mod = ModNone /\ k.Rune # 0 THEN Utf8(k.Rune)
    ELSE LET parts == modParts(k)
             keyPart == IF k.Special # SpecialNone THEN specialToVim[k.Special]
                        ELSE IF k.Rune # 0 THEN Utf8(k.Rune)
                        ELSE <<>>
         IN  IF Len(parts) > 0 \/ k.Special # SpecialNone
             THEN <<ChLt>> \o Join(Append(parts, keyPart)) \o <<ChGt>>
             ELSE keyPart

\* key.Mod |= bit
OrMod(m, bit) == IF HasMod(m, bit) THEN m ELSE m + bit

RECURSIVE parseParts(_, _, _)
\* parseVimKey: the loop over the parts, from part i on
parseParts(parts, i, key) ==
    IF i > Len(parts) THEN key
    ELSE LET part == parts[i]
             lower == ToLower(part)
         IN  IF i < Len(parts) /\ lower = <<ChLowerC>>
             THEN parseParts(parts, i + 1, [key EXCEPT !.Mod = OrMod(@, ModCtrl)])
             ELSE IF i < Len(parts) /\ lower \in {<<ChLowerA>>, <<ChLowerM>>}
             THEN parseParts(parts, i + 1, [key EXCEPT !.Mod = OrMod(@, ModAlt)])
             ELSE IF i < Len(parts) /\ lower = <<ChLowerS>>
             THEN parseParts(parts, i + 1, [key EXCEPT !.Mod = OrMod(@, ModShift)])
             ELSE IF IsVimName(lower)
             THEN parseParts(parts, i + 1, [key EXCEPT !.Special = SpecialOf(lower)])
             ELSE IF Len(part) > 0
             THEN parseParts(parts, i + 1, [key EXCEPT !.Rune = part[1]])
             ELSE parseParts(parts, i + 1, key)

\* parseVimKey(s): the content inside <...>
parseVimKey(s) == parseParts(Split(s), 1, NoKey)

\* the index of the first '>' after position i, 0 when there is none
Closing(runes, i) ==
    IF \E j \in (i + 1)..Len(runes) : runes[j] = ChGt
    THEN CHOOSE j \in (i + 1)..Len(runes) :
            runes[j] = ChGt /\ \A l \in (i + 1)..(j - 1) : runes[l] # ChGt
    ELSE 0

RECURSIVE parseFrom(_, _)
\* ParsePattern: the loop, from rune i on
parseFrom(runes, i) ==
    IF i > Len(runes) THEN <<>>
    ELSE IF runes[i] = ChLt /\ Closing(runes, i) # 0
    THEN <<parseVimKey(Encode(SubSeq(runes, i + 1, Closing(runes, i) - 1)))>>
            \o parseFrom(runes, Closing(runes, i) + 1)
    ELSE <<Rune(runes[i])>> \o parseFrom(runes, i + 1)

\* ParsePattern(pattern); nil is the empty sequence
ParsePattern(pattern) == IF pattern = <<>> THEN <<>> ELSE parseFrom(Runes(pattern), 1)


(***************************************************************************)
(* The round trip: a Key is rendered by String, the string is parsed by    *)
(* ParsePattern.                                                           *)
(*   text.pc  "key"  the Key is chosen                                     *)
(*            "str"  text.str is key.String()                              *)
(*            "done" text.keys is ParsePattern(text.str)                   *)
(***************************************************************************)
\* the runes of the keys: x X c a m s 1 space < - > and e-acute
KeyRunes == {120, 88, 99, 97, 109, 115, 49, 32, ChLt, ChMinus, ChGt, 233}
Specials == SpecialEscape..SpecialF12
\* the subsets of Ctrl, Alt, Shift
ModSets == {c + a + sh : c \in {0, ModCtrl}, a \in {0, ModAlt}, sh \in {0, ModShift}}
\* the keys String renders: a rune or a special key, with any subset of the modifiers
RenderedKeys ==
    {KeyOf(r, m, SpecialNone) : r \in KeyRunes, m \in ModSets}
       \cup {KeyOf(0, m, sp) : sp \in Specials, m \in ModSets}

InitString ==
    /\ stack = <<"normal">>
    /\ buffer = <<>>
    /\ countBuffer = <<>>
    /\ mu = MuFree
    /\ timer = 0
    /\ pending = NoHandler
    /\ pendingKeys = <<>>
    /\ timers = <<>>
    /\ threads = [t \in Callers |-> <<>>]
    /\ ncalls = 0
    /\ hist = <<>>
    /\ cancelled = {}
    /\ panicked = FALSE
    /\ intSize = 64
    /\ router = NewNamedRouter
    /\ reader = NoReader
    /\ tracing = TRUE
    /\ \E k \in RenderedKeys : text = [key |-> k, str |-> <<>>, keys |-> <<>>, pc |-> "key"]

\* s := k.String()
StringStep ==
    /\ text.pc = "key"
    /\ text' = [text EXCEPT !.str = String(text.key), !.pc = "str"]
    /\ UNCHANGED <<stack, buffer, countBuffer, mu, timer, pending, pendingKeys, timers,
                   threads, ncalls, hist, cancelled, panicked, tracing, intSize, router, reader>>

\* keys := ParsePattern(s)
ParseStep ==
    /\ text.pc = "str"
    /\ text' = [text EXCEPT !.keys = ParsePattern(text.str), !.pc = "done"]
    /\ UNCHANGED <<stack, buffer, countBuffer, mu, timer, pending, pendingKeys, timers,
                   threads, ncalls, hist, cancelled, panicked, tracing, intSize, router, reader>>

NextString == StringStep \/ ParseStep
SpecString == InitString /\ [][NextString]_vars

Parsed == text.pc = "done"
\* a rune key with a modifier whose rune is '-', '>' or not ASCII
Unparsable(k) ==
    k.Special = SpecialNone /\ k.Mod # ModNone /\ (k.Rune \in {ChMinus, ChGt} \/ k.Rune >= 128)

(***************************************************************************)
(* C30: for every Key k that is a rune or a special key with any subset of *)
(* Ctrl, Alt and Shift, ParsePattern(k.String()) is the one-element        *)
(* sequence of k.                                                          *)
(***************************************************************************)
C30_RoundTrip == Parsed => text.keys = <<text.key>>

\* the keys the round trip loses are the modified '-', '>' and non-ASCII runes, and no others
RoundTripElsewhere == Parsed => (text.keys = <<text.key>> <=> ~Unparsable(text.key))

\* Ctrl+'-' is rendered as <C--> and parsed as Ctrl with no rune
CtrlMinusLost ==
    /\ Parsed
    /\ text.key = KeyOf(ChMinus, ModCtrl, SpecialNone)
    /\ text.str = <<ChLt, ChUpperC, ChMinus, ChMinus, ChGt>>
    /\ text.keys = <<KeyOf(0, ModCtrl, SpecialNone)>>


(***************************************************************************)
(* One goroutine making up to MaxCallsSnap calls of Dispatch (a count      *)
(* digit, the ambiguous g, and x), Flush, Clear, Push and Pop, with the    *)
(* timer goroutines beside it: long enough for a pending match to be       *)
(* armed, dropped and armed again with another count.                      *)
(***************************************************************************)
MaxCallsSnap == 4
SnapKeys == {K3, Kg, Kx}
CallSnap ==
    /\ CanCall(1, MaxCallsSnap)
    /\ \/ \E k \in SnapKeys : DoCall(1, "Dispatch", k, "")
       \/ DoCall(1, "Flush", NoKey, "")
       \/ DoCall(1, "Clear", NoKey, "")
       \/ DoCall(1, "Push", NoKey, "insert")
       \/ DoCall(1, "Pop", NoKey, "")
NextSnap == CallSnap \/ Progress
SpecSnap == InitSeq /\ [][NextSnap]_vars

\* the handlers invoked by timer callbacks, in order
IsTimerFire(e) == e.ev = "fire" /\ e.via = "timer"
TimerFires == SelectSeq(hist, IsTimerFire)

(***************************************************************************)
(* C31: a handler fired by a timer callback receives the keys and the      *)
(* count snapshotted when the pending match it fires was armed (the match  *)
(* being identified by the timer armed with it), whatever calls came       *)
(* between the arming and the callback.                                    *)
(***************************************************************************)
C31_SnapshotFired ==
    \A i \in 1..Len(TimerFires) :
        /\ TimerFires[i].gen \in 1..Len(timers)
        /\ TimerFires[i].count = timers[TimerFires[i].gen].count
        /\ TimerFires[i].keys \in Patterns(Normal) \cup Patterns(Insert)

\* 3, g, Clear, g: the callback of the first timer fires the second pending match with the
\* count of the first
C31_StaleCount ==
    /\ Len(TimerFires) = 1
    /\ TimerFires[1].gen = 2
    /\ TimerFires[1].count = 3
    /\ timers[2].count = 1


\* thread t runs a critical section in this step
Section(t) == Depth(t) > 0 /\ Top(t).pc = "body" /\ threads'[t] # threads[t]
\* ... that unlocks to invoke a handler: a sequence is completed
Completes(t) == Section(t) /\ Depth(t)' > 0 /\ Top(t)'.pc = "call"
\* ... that is a Dispatch returning false: a sequence is abandoned
Abandons(t) ==
    /\ Section(t)
    /\ Top(t).op = "Dispatch"
    /\ Len(stack) > 0
    /\ Top(t)'.pc = "ret"
    /\ ~Top(t)'.ret
\* ... that is Clear
Clears(t) == Section(t) /\ Top(t).op = "Clear"

(***************************************************************************)
(* C32: the critical section that abandons a sequence (dead end, broken    *)
(* prefix), completes one (a handler fired immediately, by a timer         *)
(* callback or by Flush) or is Clear leaves the key buffer empty, no timer *)
(* armed and no pending handler set.                                       *)
(***************************************************************************)
C32_ClearedTogether ==
    [][\A t \in ThreadIds :
          (Completes(t) \/ Abandons(t) \/ Clears(t)) =>
              (buffer' = <<>> /\ pending' = NoHandler /\ Armed' = {})]_vars

\* g, Clear, g: the callback of the first timer has fired the second pending match, whose
\* timer is still armed
C32_ArmedAfterFire ==
    /\ Len(TimerFires) = 1
    /\ pending = NoHandler
    /\ buffer = <<>>
    /\ Armed = {2}


(***************************************************************************)
(* One goroutine dispatching to a router on which a pattern with a handler *)
(* (g) is the prefix of a pattern two keys longer (gtt), the key between   *)
(* being a pattern itself (t), and on which digits occur in patterns (g3,  *)
(* 3t); with Flush and Clear, and the timer goroutines beside it.          *)
(***************************************************************************)
MaxCallsLeft == 4
LeftKeys == {Kg, Kt, K3, K0}
LeftRouter ==
    Handle(Handle(Handle(Handle(Handle(NewNamedRouter,
        <<Kg>>, "g"), <<Kg, Kt, Kt>>, "gtt"), <<Kt>>, "t"), <<Kg, K3>>, "g3"), <<K3, Kt>>, "3t")
\* NewInput(root), and NewInput(nil), whose stack is empty
InitLeft ==
    /\ stack \in {<<"named">>, <<>>}
    /\ buffer = <<>>
    /\ countBuffer = <<>>
    /\ mu = MuFree
    /\ timer = 0
    /\ pending = NoHandler
    /\ pendingKeys = <<>>
    /\ timers = <<>>
    /\ threads = [t \in Callers |-> <<>>]
    /\ ncalls = 0
    /\ hist = <<>>
    /\ cancelled = {}
    /\ panicked = FALSE
    /\ intSize = 64
    /\ text = NoText
    /\ router = LeftRouter
    /\ reader = NoReader
    /\ tracing = TRUE
CallLeft ==
    /\ CanCall(1, MaxCallsLeft)
    /\ \/ \E k \in LeftKeys : DoCall(1, "Dispatch", k, "")
       \/ DoCall(1, "Flush", NoKey, "")
       \/ DoCall(1, "Clear", NoKey, "")
NextLeft ==
    \/ CallLeft
    \/ LockStep
    \/ DispatchStep
    \/ FlushStep
    \/ ClearStep
    \/ TimerStep
    \/ InvokeStep
    \/ HandlerReturnStep
    \/ ReturnStep
    \/ ExpireStep
SpecLeft == InitLeft /\ [][NextLeft]_vars


\* an unmodified digit that counts: 1-9 with the accumulator empty, 0-9 otherwise
CountCase(k) ==
    /\ k.Mod = ModNone
    /\ k.Special = SpecialNone
    /\ k.Rune \in (IF countBuffer = <<>> THEN 49..57 ELSE 48..57)
\* thread t runs the critical section of a Dispatch on a non-empty stack
DispatchSection(t) == Section(t) /\ Top(t).op = "Dispatch" /\ Len(stack) > 0
\* what the step does with the key as an ordinary key: buffered and matched on the trie
Ordinary(t) ==
    LET buf == Append(buffer, Top(t).key)
        m == match(Active, buf)
    IN  IF m.handler # NoHandler /\ (m.partial \/ m.consumed = Len(buf) \/ pending = NoHandler)
        THEN IF m.partial
             THEN pending' = m.handler /\ buffer' = buf /\ Top(t)'.pc = "ret" /\ Top(t)'.ret
             ELSE /\ Top(t)'.pc = "call"
                  /\ Top(t)'.h = m.handler
                  /\ Top(t)'.keys = SubSeq(buf, 1, m.consumed)
        ELSE IF m.handler = NoHandler /\ m.partial
             THEN buffer' = buf /\ Top(t)'.pc = "ret" /\ Top(t)'.ret
             ELSE buffer' = <<>> /\ Top(t)'.pc = "ret" /\ ~Top(t)'.ret

(***************************************************************************)
(* C33: a Dispatch of an unmodified digit with the key buffer empty (1-9,  *)
(* or 0-9 when the accumulator holds digits) appends the digit to the      *)
(* count accumulator and returns true, changing nothing else and firing no *)
(* handler, also when a pattern beginning with the digit is registered; a  *)
(* digit dispatched with the key buffer non-empty, and a 0 with the        *)
(* accumulator empty, is not accumulated and is matched as an ordinary key.*)
(***************************************************************************)
C33_DigitAccumulated ==
    [][\A t \in ThreadIds :
          (DispatchSection(t) /\ IsDigitKey(Top(t).key)) =>
              IF CountCase(Top(t).key) /\ buffer = <<>>
              THEN /\ countBuffer' = Append(countBuffer, Top(t).key.Rune)
                   /\ Top(t)'.pc = "ret"
                   /\ Top(t)'.ret
                   /\ UNCHANGED <<buffer, pending, pendingKeys, timer, timers, cancelled>>
              ELSE /\ countBuffer' \in {countBuffer, <<>>}
                   /\ Ordinary(t)]_vars

\* 3 was accumulated though 3t is registered, then g, 3 fired g3 with Count 3, and a 0
\* dispatched to the idle Input was a dead end
C33_Witness ==
    /\ DispatchedKeys = <<K3, Kg, K3, K0>>
    /\ CallerIdle
    /\ Invocations = <<Inv("g3", <<Kg, K3>>, 3, "immediate")>>
    /\ ~CallerOps[4].ret
    /\ CallerOps[1].ret
    /\ countBuffer = <<>>


\* the buffered sequence with the key appended is a dead end
DeadEnd(t) ==
    LET m == match(Active, Append(buffer, Top(t).key))
    IN  m.handler = NoHandler /\ ~m.partial
\* a pending ambiguous prefix is broken by the key
BrokenPrefix(t) ==
    LET buf == Append(buffer, Top(t).key)
        m == match(Active, buf)
    IN  pending # NoHandler /\ ~m.partial /\ m.consumed < Len(buf)
\* the key is taken as a count digit
Accumulated(t) == CountCase(Top(t).key) /\ buffer = <<>>
\* the result the call will return, once its critical section has run
Result(f) == f.ret

C35_TimerFiresInArmingOrder ==
    \A i, j \in 1..Len(TimerFires) : i < j => TimerFires[i].gen < TimerFires[j].gen

\* the callbacks took the lock in the order of arming: the second pending match was armed
\* after the first one's callback had cleared it, and its handler was invoked first
C35_Overtaken ==
    /\ Len(TimerFires) = 2
    /\ TimerFires[1].gen = 2
    /\ TimerFires[2].gen = 1
    /\ TimerFires[1].t = TimerThread(2)
    /\ TimerFires[2].t = TimerThread(1)

\* the reads outstanding on the source: the goroutines in r.r.Read and the synchronous
\* Read of ensureBytes
Outstanding == reader.reading + (IF reader.pc = "read" THEN 1 ELSE 0)
\* a result is taken from readCh
Receives == Len(reader'.readCh) < Len(reader.readCh)

(***************************************************************************)
(* C36: the Reader never has more than one read outstanding on the byte    *)
(* source: readPending is set exactly while a background read is in the    *)
(* source or its result waits in readCh, a background read is started only *)
(* when none is pending, the synchronous Read of ensureBytes runs only     *)
(* with no read pending, a result is taken (and r.tmp copied) only when no *)
(* goroutine is writing r.tmp, and the bytes of a background read that     *)
(* outlived its wait are kept for a later call: the bytes decoded, held    *)
(* and not yet decoded are always the stream.                              *)
(***************************************************************************)
C36_OneReadOutstanding ==
    /\ [](/\ Outstanding <= 1
          /\ reader.readPending <=> reader.reading + Len(reader.readCh) = 1
          /\ ~reader.readPending => reader.reading + Len(reader.readCh) = 0
          /\ reader.pc = "read" => ~reader.readPending
          /\ Decoded \o Held \o Undecoded = reader.stream)
    /\ [][/\ reader'.reading > reader.reading =>
                /\ reader.reading = 0
                /\ reader.readPending => reader.readCh # <<>>
          /\ Receives => reader.reading = 0 /\ reader.readPending]_vars

\* a, ESC arrived together and b later: the read started after ESC outlived its wait,
\* Escape was returned with the read pending, and the next call received b from it
C36_Witness ==
    /\ reader.stream = <<97, ESC, 98>>
    /\ Len(reader.out) = 3
    /\ reader.out[2].key = Sp(SpecialEscape)
    /\ reader.out[2].pending
    /\ reader.out[3].bytes = <<98>>
    /\ ~reader.out[3].pending
    /\ ~reader.readPending
    /\ reader.reading = 0


(***************************************************************************)
(* Several goroutines and re-entrant handlers on an Input whose router has *)
(* the patterns g, gtt, t, g3, 3t: after g, t the pending match g is       *)
(* shorter than the buffer.                                                *)
(***************************************************************************)
MaxCallsPrefix == 4
PrefixKeys == {Kg, Kt}
InitPrefix ==
    /\ stack = <<"named">>
    /\ buffer = <<>>
    /\ countBuffer = <<>>
    /\ mu = MuFree
    /\ timer = 0
    /\ pending = NoHandler
    /\ pendingKeys = <<>>
    /\ timers = <<>>
    /\ threads = [t \in Callers |-> <<>>]
    /\ ncalls = 0
    /\ hist = <<>>
    /\ cancelled = {}
    /\ panicked = FALSE
    /\ intSize = 64
    /\ text = NoText
    /\ router = LeftRouter
    /\ reader = NoReader
    /\ tracing = FALSE
CallPrefix ==
    \E t \in ThreadIds :
        /\ CanCall(t, MaxCallsPrefix) \/ CanCallNested(t, MaxCallsPrefix)
        /\ \/ \E k \in PrefixKeys : DoCall(t, "Dispatch", k, "")
           \/ DoCall(t, "Flush", NoKey, "")
           \/ DoCall(t, "Clear", NoKey, "")
           \/ DoCall(t, "Push", NoKey, "insert")
           \/ DoCall(t, "Pop", NoKey, "")
           \/ DoCall(t, "Pending", NoKey, "")
NextPrefix == CallPrefix \/ PendingStep \/ Progress
SpecPrefix == InitPrefix /\ [][NextPrefix]_vars

(***************************************************************************)
(* C37: whenever the lock is free and a pending match is set, pendingKeys  *)
(* is a non-empty prefix of the buffer, and no timer callback ever slices  *)
(* the buffer out of range, under every interleaving of Dispatch, Flush,   *)
(* Clear, Push, Pop, Pending and the timer callbacks.                      *)
(***************************************************************************)
C37_PendingKeysPrefix ==
    /\ ~panicked
    /\ (mu = MuFree /\ pending # NoHandler) =>
          /\ pendingKeys # <<>>
          /\ IsPrefix(pendingKeys, buffer)
    /\ (mu = MuFree /\ pending = NoHandler) => pendingKeys = <<>>

\* g, t left g pending with t behind it; the timer callback fired g and cut the buffer
\* to t, while another goroutine waits for the lock
C37_Witness ==
    /\ buffer = <<Kt>>
    /\ pending = NoHandler
    /\ \E t \in ThreadIds :
          /\ Depth(t) > 0
          /\ Top(t).op = "timer"
          /\ Top(t).pc = "call"
          /\ Top(t).keys = <<Kg>>
    /\ \E t \in Callers : Depth(t) > 0 /\ Top(t).pc = "lock"


\* b is a proper prefix of a registered pattern of the active router
ProperPrefix(b) ==
    \E P \in Patterns(Active) : Len(b) < Len(P) /\ IsPrefix(b, P)
\* a prefix of b, b included, carries a handler
HandlerOnPrefix(b) ==
    \E n \in 1..Len(b) : SubSeq(b, 1, n) \in Patterns(Active)

(***************************************************************************)
(* C38: whenever no call and no callback is in progress and no timer is    *)
(* armed, the buffer is empty, or it is a proper prefix of a registered    *)
(* pattern and none of its prefixes, itself included, carries a handler.   *)
(***************************************************************************)
C38_NoCompletedPatternWaits ==
    (Quiet /\ Armed = {} /\ stack # <<>>) =>
        \/ buffer = <<>>
        \/ ProperPrefix(buffer) /\ ~HandlerOnPrefix(buffer)

\* g, t armed g's timer with t behind g; the callback fired g and left t, a registered
\* pattern, in the buffer with nothing pending and no timer armed
C38_Leftover ==
    /\ Quiet
    /\ Armed = {}
    /\ pending = NoHandler
    /\ buffer = <<Kt>>
    /\ Len(Fires) = 1
    /\ Fires[1].h = "g"
    /\ Fires[1].via = "timer"
    /\ <<Kt>> \in Patterns(Active)


\* thread t runs the critical section of Flush
FlushSection(t) == Section(t) /\ Top(t).op = "Flush"
\* thread t runs the critical section of the callback of the timer armed for the pending
\* match
OwnCallback(t) ==
    /\ Section(t)
    /\ Top(t).op = "timer"
    /\ pending # NoHandler
    /\ TimerOf(t) = timer
\* the step of thread t hands over the pending match as the firing of its timer does:
\* the pending handler, the pending keys and the count snapshotted at arming, with the
\* buffer advanced past the keys and count accumulator and pending snapshot cleared
FiresAsTimer(t) ==
    /\ Top(t)'.pc = "call"
    /\ Top(t)'.h = pending
    /\ Top(t)'.keys = pendingKeys
    /\ Top(t)'.count = timers[timer].count
    /\ buffer' = SubSeq(buffer, Len(pendingKeys) + 1, Len(buffer))
    /\ countBuffer' = <<>>
    /\ pending' = NoHandler
    /\ pendingKeys' = <<>>

(***************************************************************************)
(* C39: a Flush with a match pending does what the callback of that        *)
(* match's timer does at that moment: it hands the same handler the same   *)
(* keys and count and leaves the same buffer, count accumulator and        *)
(* pending snapshot; with nothing pending Flush changes nothing.           *)
(***************************************************************************)
C39_FlushAsTimer ==
    [][\A t \in ThreadIds :
          /\ OwnCallback(t) => FiresAsTimer(t)
          /\ FlushSection(t) /\ pending # NoHandler => FiresAsTimer(t)
          /\ FlushSection(t) /\ pending = NoHandler =>
                UNCHANGED <<stack, buffer, countBuffer, timer, pending, pendingKeys, timers>>]_vars

\* g, t left g pending with t behind it; Flush fired g and emptied the buffer, where the
\* timer would have left t
C39_FlushDropsLeftover ==
    /\ Quiet
    /\ buffer = <<>>
    /\ Len(Fires) = 1
    /\ Fires[1].h = "g"
    /\ Fires[1].via = "flush"
    /\ DispatchedKeys = <<Kg, Kt, NoKey>>


(***************************************************************************)
(* Every method of the Input called by several goroutines and by handlers. *)
(***************************************************************************)
\* Current, from the lock taken to the return
CurrentBody(t) ==
    /\ ~panicked
    /\ Running(t, "Current", "body")
    /\ threads' = SetTop(t, [Top(t) EXCEPT !.pc = "ret",
                                           !.r = IF Len(stack) = 0 THEN "" ELSE current(stack)])
    /\ hist' = Log(OpEv("Current", t, NoKey, TRUE))
    /\ UNCHANGED <<stack, buffer, countBuffer, mu, timer, pending, pendingKeys, timers,
                   ncalls, cancelled, panicked, tracing, intSize, router, reader, text>>

\* Depth, from the lock taken to the return
DepthBody(t) ==
    /\ ~panicked
    /\ Running(t, "Depth", "body")
    /\ threads' = SetTop(t, [Top(t) EXCEPT !.pc = "ret", !.count = Len(stack)])
    /\ hist' = Log(OpEv("Depth", t, NoKey, TRUE))
    /\ UNCHANGED <<stack, buffer, countBuffer, mu, timer, pending, pendingKeys, timers,
                   ncalls, cancelled, panicked, tracing, intSize, router, reader, text>>

CurrentStep == \E t \in ThreadIds : CurrentBody(t)
DepthStep == \E t \in ThreadIds : DepthBody(t)

MaxCallsFree == 3
CallFree ==
    \E t \in ThreadIds :
        /\ CanCall(t, MaxCallsFree) \/ CanCallNested(t, MaxCallsFree)
        /\ \/ \E k \in PrefixKeys : DoCall(t, "Dispatch", k, "")
           \/ DoCall(t, "Flush", NoKey, "")
           \/ DoCall(t, "Clear", NoKey, "")
           \/ DoCall(t, "Push", NoKey, "insert")
           \/ DoCall(t, "Pop", NoKey, "")
           \/ DoCall(t, "Pending", NoKey, "")
           \/ DoCall(t, "Current", NoKey, "")
           \/ DoCall(t, "Depth", NoKey, "")
\* the steps of the goroutines that are in a call, a callback or a handler
FreeProgress == PendingStep \/ CurrentStep \/ DepthStep \/ Progress
NextFree == CallFree \/ FreeProgress
SpecFree == InitPrefix /\ [][NextFree]_vars
\* every goroutine that can take a step is scheduled, and handlers return
SpecFreeFair == SpecFree /\ WF_vars(FreeProgress)

\* the goroutines there can be: the callers and one per timer
FreeThreads == 1..(NumCallers + MaxCallsFree)
\* goroutine t is in a call, a callback or a handler
InCall(t) == t \in ThreadIds /\ Depth(t) > 0
\* no call, callback or handler is in progress
NoCall == \A t \in ThreadIds : Depth(t) = 0

(***************************************************************************)
(* C40: under every interleaving of Dispatch, Flush, Clear, Push, Pop,     *)
(* Pending, Current, Depth and the timer callbacks, called by several      *)
(* goroutines and by handlers, every call and callback eventually returns, *)
(* the lock is held only by a goroutine that is in a call, and it is free  *)
(* whenever no call is in progress.                                        *)
(***************************************************************************)
C40_DeadlockFree ==
    /\ [](NoCall => mu = MuFree)
    /\ [](mu # MuFree => mu.owner \in ThreadIds /\ Depth(mu.owner) > 0)
    /\ [](~panicked)
    /\ \A t \in FreeThreads : InCall(t) ~> ~InCall(t)

\* a handler invoked by Dispatch is inside a nested call that holds the lock, while the
\* other goroutine and a timer callback wait for it
C40_Witness ==
    /\ Depth(1) = 3
    /\ threads[1][1].op = "Dispatch"
    /\ threads[1][2].op = "handler"
    /\ threads[1][3].pc = "ret"
    /\ mu.owner = 1
    /\ Depth(2) > 0 /\ Top(2).pc = "lock"
    /\ \E t \in ThreadIds : t > NumCallers /\ Depth(t) > 0 /\ Top(t).pc = "lock"


====
